---------------------------- MODULE Spec2Model ----------------------------
(***************************************************************************)
(* A model of gscwrapper: the REST query builder and its paginated get()   *)
(* (gscwrapper/query.py, class Query) and the warehouse query object       *)
(* (gscwrapper/query_bq.py, classes Query_BQ and Report_BQ).               *)
(*                                                                         *)
(* Python dicts are functions whose DOMAIN is the set of keys present.     *)
(* A Python argument of unknown type is a record [kind, val]: kind is the  *)
(* Python type the code tests for ("none", "list", "str", "int").          *)
(* A table of more than a handful of rows is kept by its row count and by  *)
(* the rows at the positions of Sample (first rows, page boundary, last    *)
(* rows); a backend row is named by its offset in the backend's result.    *)
(***************************************************************************)
EXTENDS Integers, Sequences, FiniteSets, TLC

VARIABLES
    raw,        \* Query.raw: the request body sent to the API
    meta,       \* Query.meta: the caller's limit, when one is recorded
    pc,         \* "idle", or "loop" while get() is in its pagination loop
    loc,        \* get()'s locals: report, is_complete, limit_achieved, limit, total_rows
    backend,    \* the page sizes the REST backend answers the running get() with
    events,     \* what the running (or last) get() did: "sleep" and "request", in order
    reqs,       \* the request bodies the running (or last) get() sent, in order
    pages,      \* the row counts the backend answered them with, in order
    returned,   \* the Report table the last successful get() returned
    lastOp,     \* the last finished operation: its name, how it ended, what it returned
    nops,       \* operations started so far
    filterLog,  \* filters accepted since the Query was created or last reset
    bq,         \* the Query_BQ: dates, filters, filters_dimensions
    rep,        \* the Report_BQ the last Query_BQ.get() created, if any
    bqOp,       \* the last warehouse operation: its name, how it ended, the backend calls it made
    bqArgs,     \* the arguments the last warehouse operation was given, if the properties read them
    warehouse,  \* the rows of the table searchdata_url_impression of the dataset
    bqRead,     \* of the last find_content_decay of the warehouse: its arguments, the rows read
    rpt,        \* the Report of the REST engine on which operations are called
    rptOp,      \* the last operation of that Report: its name, how it ended, what it returned,
                \* and the arguments of find_content_decay
    rptOut,     \* the Report or the table that operation returned
    auth        \* the last call of generate_auth: its arguments and how it ended

vars == <<raw, meta, pc, loc, backend, events, reqs, pages, returned, lastOp, nops, filterLog, bq, rep, bqOp, bqArgs, warehouse, bqRead, rpt, rptOp, rptOut, auth>>

restVars == <<raw, meta, pc, loc, backend, events, reqs, pages, returned, lastOp, nops, filterLog>>

bqVars == <<bq, rep, bqOp, bqArgs, warehouse, bqRead>>

reportVars == <<rpt, rptOp, rptOut>>

authVars == <<auth>>

-----------------------------------------------------------------------------
(* Bounds of the model *)

\* operations (builder calls and get() calls) in one behaviour
MaxOps == 4

\* full pages a backend answers with before its short page
MaxFullPages == 2

\* filters a Query_BQ accepts in one behaviour
MaxBqFilters == 2

-----------------------------------------------------------------------------
(* Program constants: query.py lines 12-15 and 46 *)

DIMENSIONS == {"country", "device", "page", "query", "searchAppearance", "date"}

OPERATORS == {"equals", "notEquals", "contains", "notContains", "includingRegex", "excludingRegex"}

SEARCH_TYPES == {"web", "image", "video", "discover", "googleNews", "news"}

DATA_STATES == {"all", "final"}

PageSize == 25000

Min(a, b) == IF a <= b THEN a ELSE b

EmptyDict == [k \in {} |-> 0]

\* Query.__init__: self.raw
InitRaw == [startRow |-> 0, rowLimit |-> PageSize]

\* d[k] = v on a Python dict
DictSet(d, k, v) == (k :> v) @@ d

-----------------------------------------------------------------------------
(* Arguments the callers pass *)

None == [kind |-> "none", val |-> <<>>]

DimArgs ==
    { None,
      [kind |-> "str", val |-> <<"date">>],
      [kind |-> "list", val |-> <<"bogus">>],
      [kind |-> "list", val |-> <<"date">>],
      [kind |-> "list", val |-> <<"page", "query">>] }

FilterArg(d, e, o, g) == [dimension |-> d, expression |-> e, operator |-> o, group_type |-> g]

FilterArgs ==
    { FilterArg("page", "x", "equals", "and"),
      FilterArg("query", "y", "contains", "or"),
      FilterArg("bogus", "x", "equals", "and"),
      FilterArg("page", "x", "bogus", "and") }

SearchTypeArgs == {"image", "bogus"}

DataStateArgs == {"all", "bogus"}

LimitArgs ==
    { [kind |-> "none", val |-> 0],
      [kind |-> "str", val |-> 0] }
    \cup [kind : {"int"}, val : {0, 10, PageSize + 5000}]

RangeArgs == { [start |-> "2024-01-01", stop |-> "2024-01-03"] }

-----------------------------------------------------------------------------
(* The builder methods: each maps the Query q = [raw, meta] and its        *)
(* arguments to the Query afterwards, how the call ended and what it       *)
(* returned.                                                               *)

Raise(q, exc) == [raw |-> q.raw, meta |-> q.meta, status |-> exc, ret |-> "nothing"]

ReturnSelf(r, m) == [raw |-> r, meta |-> m, status |-> "ok", ret |-> "self"]

\* Python's truth value of an argument: None and empty containers are false
Falsy(arg) == arg.kind = "none" \/ (arg.kind \in {"list", "str"} /\ Len(arg.val) = 0)

range(q, start, stop) ==
    ReturnSelf(DictSet(DictSet(q.raw, "startDate", start), "endDate", stop), q.meta)

dimensions(q, arg) ==
    IF Falsy(arg) THEN Raise(q, "ValueError")
    ELSE IF arg.kind # "list" THEN Raise(q, "TypeError")
    ELSE IF \E i \in 1..Len(arg.val) : arg.val[i] \notin DIMENSIONS THEN Raise(q, "ValueError")
    ELSE ReturnSelf(DictSet(q.raw, "dimensions", arg.val), q.meta)

\* filter with a bug: every call opens a group of its own
filter_GroupPerCall(q, a) ==
    IF a.dimension \notin DIMENSIONS THEN Raise(q, "ValueError")
    ELSE IF a.operator \notin OPERATORS THEN Raise(q, "ValueError")
    ELSE
        LET dimension_filter ==
                [dimension |-> a.dimension, expression |-> a.expression, operator |-> a.operator]
            filter_group == [groupType |-> a.group_type, filters |-> <<dimension_filter>>]
            groups == IF "dimensionFilterGroups" \in DOMAIN q.raw
                      THEN q.raw["dimensionFilterGroups"] ELSE <<>>
        IN  ReturnSelf(DictSet(q.raw, "dimensionFilterGroups", Append(groups, filter_group)), q.meta)

filter(q, a) ==
    IF a.dimension \notin DIMENSIONS THEN Raise(q, "ValueError")
    ELSE IF a.operator \notin OPERATORS THEN Raise(q, "ValueError")
    ELSE
        LET dimension_filter ==
                [dimension |-> a.dimension, expression |-> a.expression, operator |-> a.operator]
            filter_group == [groupType |-> a.group_type, filters |-> <<dimension_filter>>]
        IN  IF "dimensionFilterGroups" \notin DOMAIN q.raw
            THEN ReturnSelf(DictSet(q.raw, "dimensionFilterGroups", <<filter_group>>), q.meta)
            ELSE LET groups == q.raw["dimensionFilterGroups"]
                     last == groups[Len(groups)]
                     grown == [last EXCEPT !.filters = Append(@, dimension_filter)]
                 IN  ReturnSelf(
                        DictSet(q.raw, "dimensionFilterGroups",
                                [groups EXCEPT ![Len(groups)] = grown]),
                        q.meta)

search_type(q, t) ==
    IF t \notin SEARCH_TYPES THEN Raise(q, "ValueError")
    ELSE ReturnSelf(DictSet(q.raw, "type", t), q.meta)

data_state(q, s) ==
    IF s \notin DATA_STATES THEN Raise(q, "ValueError")
    ELSE ReturnSelf(DictSet(q.raw, "dataState", s), q.meta)

\* limit with a bug: the limit is recorded before it is checked to be positive
limit_RecordsBeforeCheck(q, arg) ==
    IF arg.kind = "none" THEN Raise(q, "ValueError")
    ELSE IF arg.kind # "int" THEN Raise(q, "TypeError")
    ELSE IF arg.val <= 0
    THEN [raw |-> q.raw, meta |-> DictSet(q.meta, "limit", arg.val),
          status |-> "ValueError", ret |-> "nothing"]
    ELSE ReturnSelf(DictSet(q.raw, "rowLimit", Min(arg.val, PageSize)),
                    DictSet(q.meta, "limit", arg.val))

\* limit with a change: the page size of the request body is left alone
limit_KeepsPageSize(q, arg) ==
    IF arg.kind = "none" THEN Raise(q, "ValueError")
    ELSE IF arg.kind # "int" THEN Raise(q, "TypeError")
    ELSE IF arg.val <= 0 THEN Raise(q, "ValueError")
    ELSE ReturnSelf(q.raw, DictSet(q.meta, "limit", arg.val))

limit(q, arg) ==
    IF arg.kind = "none" THEN Raise(q, "ValueError")
    ELSE IF arg.kind # "int" THEN Raise(q, "TypeError")
    ELSE IF arg.val <= 0 THEN Raise(q, "ValueError")
    ELSE ReturnSelf(DictSet(q.raw, "rowLimit", Min(arg.val, PageSize)),
                    DictSet(q.meta, "limit", arg.val))

-----------------------------------------------------------------------------
(* The REST backend (service.searchanalytics().query(...).execute()).      *)
(* It answers the k-th request of a get() with script[k] rows, never more  *)
(* than the request's rowLimit, and with no rows once the script is over.  *)
(* The rows of a page are the backend's rows startRow+1 .. startRow+n.     *)

ShortCounts == {0, PageSize - 1}

FullPages(k) == [i \in 1..k |-> PageSize]

Scripts ==
    { <<2, 2, 1>> }
    \cup { FullPages(k) \o <<s>> : k \in 0..MaxFullPages, s \in ShortCounts }

Respond(script, k, body) ==
    [start |-> body.startRow,
     n |-> IF k <= Len(script) THEN Min(script[k], body.rowLimit) ELSE 0]

MetricNames == <<"clicks", "impressions", "ctr", "position">>

\* The backend's row at offset id, for a request with these dimensions:
\* its keys are aligned with the requested dimensions, in their order.
ApiRow(dims, id) ==
    [keys |-> [k \in 1..Len(dims) |-> <<dims[k], id>>],
     clicks |-> id,
     impressions |-> id + id,
     ctr |-> <<"ctr", id>>,
     position |-> <<"position", id>>]

-----------------------------------------------------------------------------
(* Query.get *)

NoLimit == [inf |-> TRUE, val |-> 0]

InitLoc ==
    [report |-> <<>>, is_complete |-> FALSE, limit_achieved |-> FALSE,
     limit |-> NoLimit, total_rows |-> 0]

\* limit = self.meta.get('limit', float('inf'))
MetaLimit(m) == IF "limit" \in DOMAIN m THEN [inf |-> FALSE, val |-> m["limit"]] ELSE NoLimit

\* the loop condition with a bug: "or" for "and"
LoopContinues_Or(is_complete, limit_achieved) == is_complete = FALSE \/ limit_achieved = FALSE

\* while is_complete == False and limit_achieved == False
LoopContinues(is_complete, limit_achieved) == is_complete = FALSE /\ limit_achieved = FALSE

\* the short-page test with a bug: only an empty page ends the data
IsShortPage_OnlyEmpty(n) == n = 0

\* if len(chunk.get('rows', [])) < 25000
IsShortPage(n) == n < PageSize

\* if total_rows >= limit
LimitAchieved(total_rows, lim) == ~lim.inf /\ total_rows >= lim.val

\* One pass of the loop body after the backend answered with chunk:
\* the locals and the request body afterwards.
LoopBody(l, body, chunk) ==
    LET total == l.total_rows + chunk.n
    IN  [loc |-> [l EXCEPT
                    !.total_rows = total,
                    !.report = Append(@, chunk),
                    !.is_complete = IF IsShortPage(chunk.n) THEN TRUE ELSE @,
                    !.limit_achieved = IF LimitAchieved(total, l.limit) THEN TRUE ELSE @],
         raw |-> IF IsShortPage(chunk.n)
                 THEN body
                 ELSE [body EXCEPT !.startRow = @ + PageSize]]

RECURSIVE FlatLen(_)
\* len(flattened): the rows of all the chunks
FlatLen(report) == IF report = <<>> THEN 0 ELSE report[1].n + FlatLen(Tail(report))

RECURSIVE RowId(_, _)
\* the backend offset of the i-th row of the flattened report
RowId(report, i) ==
    IF i <= report[1].n THEN report[1].start + i
    ELSE RowId(Tail(report), i - report[1].n)

\* the positions at which a table's rows are kept
Sample(n) == { i \in {1, 2, 3, PageSize, PageSize + 1, n - 1, n} : 1 <= i /\ i <= n }

\* the key columns with a bug: the keys are read in reverse order
KeyColumns_Reversed(dims, keys) ==
    [c \in {dims[k] : k \in 1..Len(dims)} |->
        keys[Len(dims) + 1 - (CHOOSE k \in 1..Len(dims) : dims[k] = c)]]

\* pd.DataFrame(keys, columns = dimensions): column dimensions[k] holds keys[k]
KeyColumns(dims, keys) ==
    [c \in {dims[k] : k \in 1..Len(dims)} |-> keys[CHOOSE k \in 1..Len(dims) : dims[k] = c]]

\* .join(flattened.drop('keys', axis = 1)): the metrics of the row at the same index
JoinRow(keyCols, metricsRow) ==
    keyCols @@ [m \in DOMAIN metricsRow \ {"keys"} |-> metricsRow[m]]

\* the empty-result test with a bug: it never finds the result empty
NoData_Never(flattenedLen) == FALSE

\* if len(flattened) == 0: raise
NoData(flattenedLen) == flattenedLen = 0

\* df.head(limit) when a limit is set
DfHead(n, lim) == IF lim.inf THEN n ELSE Min(n, lim.val)

NoReport == [columns |-> <<>>, nrows |-> 0, rows |-> <<>>]

\* the DataFrame get() builds from the flattened report
BuildDf(report, dims, lim) ==
    LET n == DfHead(FlatLen(report), lim)
    IN  [columns |-> dims \o MetricNames,
         nrows |-> n,
         rows |-> [i \in Sample(n) |->
                     LET r == ApiRow(dims, RowId(report, i))
                     IN  JoinRow(KeyColumns(dims, r.keys), r)]]

\* get() after its loop with a reset of the paging state only: the row
\* offset and the limit go, the rest of the request body stays
AfterLoop_PagingOnly(q, l) ==
    IF NoData(FlatLen(l.report))
    THEN [raw |-> q.raw, meta |-> q.meta, status |-> "ValueError", ret |-> "nothing", df |-> NoReport]
    ELSE IF "dimensions" \notin DOMAIN q.raw
    THEN [raw |-> q.raw, meta |-> q.meta, status |-> "KeyError", ret |-> "nothing", df |-> NoReport]
    ELSE [raw |-> [q.raw EXCEPT !["startRow"] = 0, !["rowLimit"] = PageSize],
          meta |-> EmptyDict, status |-> "ok", ret |-> "Report",
          df |-> BuildDf(l.report, q.raw["dimensions"], l.limit)]

\* get() after its loop: the error it raises, or the Report and the reset
AfterLoop(q, l) ==
    IF NoData(FlatLen(l.report))
    THEN [raw |-> q.raw, meta |-> q.meta, status |-> "ValueError", ret |-> "nothing", df |-> NoReport]
    ELSE IF "dimensions" \notin DOMAIN q.raw
    THEN [raw |-> q.raw, meta |-> q.meta, status |-> "KeyError", ret |-> "nothing", df |-> NoReport]
    ELSE [raw |-> InitRaw, meta |-> EmptyDict, status |-> "ok", ret |-> "Report",
          df |-> BuildDf(l.report, q.raw["dimensions"], l.limit)]

-----------------------------------------------------------------------------
(* The REST engine: one Query object, called by one single-threaded caller *)

Q == [raw |-> raw, meta |-> meta]

InitRest ==
    /\ raw = InitRaw
    /\ meta = EmptyDict
    /\ pc = "idle"
    /\ loc = InitLoc
    /\ backend = <<>>
    /\ events = <<>>
    /\ reqs = <<>>
    /\ pages = <<>>
    /\ returned = NoReport
    /\ lastOp = [name |-> "__init__", status |-> "ok", ret |-> "nothing"]
    /\ nops = 0
    /\ filterLog = <<>>

\* A builder call that ran to its end (its return or its exception)
Builder(name, out) ==
    /\ pc = "idle"
    /\ nops < MaxOps
    /\ nops' = nops + 1
    /\ raw' = out.raw
    /\ meta' = out.meta
    /\ lastOp' = [name |-> name, status |-> out.status, ret |-> out.ret]
    /\ UNCHANGED <<pc, loc, backend, events, reqs, pages, returned>>

CallRange ==
    /\ \E a \in RangeArgs : Builder("range", range(Q, a.start, a.stop))
    /\ UNCHANGED filterLog

CallDimensions ==
    /\ \E a \in DimArgs : Builder("dimensions", dimensions(Q, a))
    /\ UNCHANGED filterLog

CallFilter ==
    \E a \in FilterArgs :
        /\ Builder("filter", filter(Q, a))
        /\ filterLog' = IF filter(Q, a).status = "ok"
                        THEN Append(filterLog,
                                    [dimension |-> a.dimension, expression |-> a.expression,
                                     operator |-> a.operator])
                        ELSE filterLog

CallSearchType ==
    /\ \E a \in SearchTypeArgs : Builder("search_type", search_type(Q, a))
    /\ UNCHANGED filterLog

CallDataState ==
    /\ \E a \in DataStateArgs : Builder("data_state", data_state(Q, a))
    /\ UNCHANGED filterLog

CallLimit ==
    /\ \E a \in LimitArgs : Builder("limit", limit(Q, a))
    /\ UNCHANGED filterLog

\* get() up to its loop: lines 228-234
GetStart ==
    /\ pc = "idle"
    /\ nops < MaxOps
    /\ nops' = nops + 1
    /\ pc' = "loop"
    /\ loc' = [InitLoc EXCEPT !.limit = MetaLimit(meta)]
    /\ backend' \in Scripts
    /\ events' = <<>>
    /\ reqs' = <<>>
    /\ pages' = <<>>
    /\ UNCHANGED <<raw, meta, returned, lastOp, filterLog>>

\* one pass of the loop: the delay, one page request, the bookkeeping
GetPage ==
    /\ pc = "loop"
    /\ LoopContinues(loc.is_complete, loc.limit_achieved)
    /\ events' = events \o <<"sleep", "request">>
    /\ reqs' = Append(reqs, raw)
    /\ LET chunk == Respond(backend, Len(reqs) + 1, raw)
           out == LoopBody(loc, raw, chunk)
       IN  /\ pages' = Append(pages, chunk.n)
           /\ loc' = out.loc
           /\ raw' = out.raw
    /\ UNCHANGED <<meta, pc, backend, returned, lastOp, nops, filterLog>>

\* one pass of the loop in which the request raises (quota, transport):
\* the exception leaves get()
GetPageFails ==
    /\ pc = "loop"
    /\ LoopContinues(loc.is_complete, loc.limit_achieved)
    /\ events' = events \o <<"sleep", "request">>
    /\ reqs' = Append(reqs, raw)
    /\ pc' = "idle"
    /\ loc' = InitLoc
    /\ backend' = <<>>
    /\ lastOp' = [name |-> "get", status |-> "HttpError", ret |-> "nothing"]
    /\ UNCHANGED <<raw, meta, pages, returned, nops, filterLog>>

\* get() after its loop: lines 259-294
GetFinish ==
    /\ pc = "loop"
    /\ ~LoopContinues(loc.is_complete, loc.limit_achieved)
    /\ LET out == AfterLoop(Q, loc)
       IN  /\ raw' = out.raw
           /\ meta' = out.meta
           /\ lastOp' = [name |-> "get", status |-> out.status, ret |-> out.ret]
           /\ returned' = IF out.status = "ok" THEN out.df ELSE returned
           /\ filterLog' = IF out.status = "ok" THEN <<>> ELSE filterLog
    /\ pc' = "idle"
    /\ loc' = InitLoc
    /\ backend' = <<>>
    /\ UNCHANGED <<events, reqs, pages, nops>>

-----------------------------------------------------------------------------
(* The warehouse engine: query_bq.py.                                      *)
(* A date string is kept by what the code reads of it: whether it is None, *)
(* its length, the number of its '-'-separated parts, and the integer its  *)
(* digits spell.  A sitemap URL is kept by the two tests made on it.       *)

OPERATORS_BQ ==
    [equals |-> "=", notEquals |-> "!=", contains |-> "LIKE", notContains |-> "NOT LIKE",
     includingRegex |-> "REGEXP_CONTAINS", excludingRegex |-> "NOT REGEXP_CONTAINS"]

DIMENSIONS_SITE == {"site_url", "query", "is_anonymized_query", "country", "search_type", "device"}

\* lines 10-42; 'is_amp_blue_link' and 'is_job_listing' are one string there
\* (no comma between the two literals)
DIMENSIONS_URL ==
    {"url", "is_anonymized_discover_", "is_amp_top_stories", "is_amp_blue_linkis_job_listing",
     "is_job_details", "is_tpf_qa", "is_tpf_faq", "is_tpf_howto", "is_weblite", "is_action",
     "is_events_listing", "is_events_details", "is_search_appearance_android_app",
     "is_amp_story", "is_amp_image_result", "is_video", "is_organic_shopping",
     "is_review_snippet", "is_special_announcement", "is_recipe_feature",
     "is_recipe_rich_snippet", "is_subscribed_content", "is_page_experience",
     "is_practice_problems", "is_math_solvers", "is_translated_result", "is_edu_q_and_a",
     "is_product_snippets", "is_merchant_listings", "is_learning_videos"}

DateStr(len, parts, num) == [none |-> FALSE, len |-> len, parts |-> parts, num |-> num]

NoneDate == [none |-> TRUE, len |-> 0, parts |-> 0, num |-> 0]

\* None, '2024-01-01', '2024-01-31', '2023-12-01', '01/31/2024'
BqDateArgs ==
    { NoneDate,
      DateStr(10, 3, 20240101),
      DateStr(10, 3, 20240131),
      DateStr(10, 3, 20231201),
      DateStr(10, 1, 1312024) }

\* data_summary().earliest_partition.min(), as the warehouse reports it
EarliestPartitions == {20240101}

BqFilterArgs ==
    { FilterArg("query", "x", "equals", "and"),
      FilterArg("url", "y", "contains", "and"),
      FilterArg("is_job_listing", "true", "equals", "and"),
      FilterArg("country", "z", "bogus", "and"),
      FilterArg("query", "^a", "includingRegex", "or") }

SitemapArgs ==
    { [is_url |-> TRUE, ends_xml |-> TRUE],
      [is_url |-> TRUE, ends_xml |-> FALSE],
      [is_url |-> FALSE, ends_xml |-> FALSE] }

InitQueryBq == [dates |-> EmptyDict, filters |-> <<>>, filters_dimensions |-> <<>>]

NoReportBq == [exists |-> FALSE, filters |-> <<>>, estimate_cost |-> TRUE, table_to_use |-> ""]

\* the outcome of a warehouse operation: the objects afterwards, how it ended,
\* the backend calls it made, in order
BqOut(b, r, status, calls, ret) ==
    [bq |-> b, rep |-> r, status |-> status, calls |-> calls, ret |-> ret]

\* Python's truth value of a date argument
Truthy(d) == ~d.none /\ d.len > 0

bq_range(b, r, start, stop, earliest) ==
    LET updated == [b EXCEPT !.dates = DictSet(DictSet(@, "startDate", start), "endDate", stop)]
    IN  IF Truthy(start) /\ Truthy(stop)
        THEN IF start.len # 10 \/ stop.len # 10 \/ start.parts # 3 \/ stop.parts # 3
             THEN BqOut(b, r, "ValueError", <<>>, "nothing")
             ELSE IF start.num < earliest
             THEN BqOut(b, r, "ValueError", <<"read_gbq">>, "nothing")
             ELSE BqOut(updated, r, "ok", <<"read_gbq">>, "self")
        ELSE BqOut(updated, r, "ok", <<>>, "self")

\* the SQL text a filter adds
FilterSql(a) ==
    IF a.operator \in {"equals", "notEquals"}
    THEN <<"AND", a.dimension, OPERATORS_BQ[a.operator], <<"'", a.expression, "'">> >>
    ELSE IF a.operator \in {"contains", "notContains"}
    THEN <<"AND", a.dimension, OPERATORS_BQ[a.operator], <<"'%", a.expression, "%'">> >>
    ELSE <<"AND", OPERATORS_BQ[a.operator], "(", a.dimension, <<"'", a.expression, "'">>, ")">>

bq_filter(b, r, a) ==
    IF a.operator \notin OPERATORS THEN BqOut(b, r, "ValueError", <<>>, "nothing")
    ELSE IF a.dimension \notin DIMENSIONS_SITE /\ a.dimension \notin DIMENSIONS_URL
    THEN BqOut(b, r, "ValueError", <<>>, "nothing")
    ELSE BqOut([b EXCEPT !.filters = Append(@, FilterSql(a)),
                         !.filters_dimensions = Append(@, a.dimension)],
               r, "ok", <<>>, "self")

define_table_to_use_Any(filters_dimensions) ==
    IF \E i \in 1..Len(filters_dimensions) : filters_dimensions[i] \in DIMENSIONS_SITE
    THEN "searchdata_site_impression"
    ELSE "searchdata_url_impression"

define_table_to_use(filters_dimensions) ==
    IF \A i \in 1..Len(filters_dimensions) : filters_dimensions[i] \in DIMENSIONS_SITE
    THEN "searchdata_site_impression"
    ELSE "searchdata_url_impression"

\* Query_BQ.get and Report_BQ.__init__
bq_get(b, r) ==
    IF "startDate" \notin DOMAIN b.dates \/ "endDate" \notin DOMAIN b.dates
    THEN BqOut(b, r, "ValueError", <<>>, "nothing")
    ELSE BqOut(b,
               [exists |-> TRUE, filters |-> b.filters, estimate_cost |-> TRUE,
                table_to_use |-> define_table_to_use(b.filters_dimensions)],
               "ok", <<>>, "Report_BQ")

\* define_estimate_cost as a setter of the flag
define_estimate_cost_Sets(b, r, value) ==
    BqOut(b, [r EXCEPT !.estimate_cost = value], "ok", <<>>, "self")

define_estimate_cost(b, r, value) ==
    BqOut(b, IF ~value THEN [r EXCEPT !.estimate_cost = FALSE] ELSE r, "ok", <<>>, "self")

\* utils.check_sitemap_url: TRUE when it returns, FALSE when it raises ValueError
check_sitemap_url(url) == url.is_url /\ url.ends_xml

pages_not_in_sitemap(b, r, sitemap_url) ==
    IF r.estimate_cost
    THEN BqOut(b, r, "ok", <<"dry_run">>, "cost")
    ELSE IF check_sitemap_url(sitemap_url)
    THEN BqOut(b, r, "ok", <<"read_gbq", "fetch_sitemap">>, "DataFrame")
    ELSE BqOut(b, r, "ValueError", <<"read_gbq">>, "nothing")

\* lines 48-56 and the end of every analytic operation (e.g. 205-208): while
\* estimate_cost is set the operation returns the cost a dry run reports,
\* otherwise it runs the query; pre holds the calls made before that point
EstimateGate_Inverted(b, r, pre) ==
    IF ~r.estimate_cost
    THEN BqOut(b, r, "ok", pre \o <<"dry_run">>, "cost")
    ELSE BqOut(b, r, "ok", pre \o <<"read_gbq">>, "DataFrame")

EstimateGate(b, r, pre) ==
    IF r.estimate_cost
    THEN BqOut(b, r, "ok", pre \o <<"dry_run">>, "cost")
    ELSE BqOut(b, r, "ok", pre \o <<"read_gbq">>, "DataFrame")

PERIODS == {"D", "W", "M", "Q", "Y", "QE", "ME"}

bq_ctr_yield_curve(b, r) == EstimateGate(b, r, <<>>)

bq_group_data_by_period(b, r, period) ==
    IF period \notin PERIODS THEN BqOut(b, r, "ValueError", <<>>, "nothing")
    ELSE EstimateGate(b, r, <<>>)

\* sitemap_url and urls are kept by their truth value
bq_active_pages(b, r, sitemap_url, urls) ==
    IF urls /\ sitemap_url THEN BqOut(b, r, "ValueError", <<>>, "nothing")
    ELSE IF ~urls /\ ~sitemap_url THEN BqOut(b, r, "ValueError", <<>>, "nothing")
    ELSE EstimateGate(b, r, IF sitemap_url THEN <<"fetch_sitemap">> ELSE <<>>)

\* df is kept by whether it is a DataFrame, keyword_column by whether it is
\* one of its columns; a Report_BQ has no attribute 'dimensions' (148-161),
\* so reading it at line 485 raises AttributeError
keyword_gap(b, r, df_is_dataframe, column_in_df) ==
    IF ~df_is_dataframe THEN BqOut(b, r, "ValueError", <<>>, "nothing")
    ELSE IF ~column_in_df THEN BqOut(b, r, "ValueError", <<>>, "nothing")
    ELSE BqOut(b, r, "AttributeError", <<>>, "nothing")

\* intervention_date is kept by its truth value
causal_impact(b, r, intervention_date) ==
    IF ~intervention_date THEN BqOut(b, r, "ValueError", <<>>, "nothing")
    ELSE EstimateGate(b, r, <<>>)

\* sitemap_url is kept by its truth value
find_potential_contents_to_kill(b, r, sitemap_url) ==
    IF ~sitemap_url THEN BqOut(b, r, "ValueError", <<>>, "nothing")
    ELSE EstimateGate(b, r, <<"fetch_sitemap">>)

\* utils.are_dates_parsable (utils.py 78-88) as winners_losers calls it, on one
\* date string: it iterates over the characters of the string, and no single
\* character parses as a date, so the list has one False per character
are_dates_parsable(date) == [i \in 1..date.len |-> FALSE]

\* Python's all() over a list of lists: a list is true when it is not empty
AllTruthy(lists) == \A i \in 1..Len(lists) : lists[i] # <<>>

\* datetime.strptime(d, "%Y-%m-%d") returns a date (it raises ValueError otherwise)
Parses(d) == d.len = 10 /\ d.parts = 3

\* a period argument: whether it is a list, and its elements
Period(is_list, dates) == [is_list |-> is_list, dates |-> dates]

Jan(day) == DateStr(10, 3, 20240100 + day)

\* the (period_from, period_to) arguments tried
WinnersLosersArgs ==
    { <<Period(TRUE, <<Jan(1), Jan(10)>>), Period(TRUE, <<Jan(15), Jan(31)>>)>>,
      <<Period(TRUE, <<Jan(1), Jan(15)>>), Period(TRUE, <<Jan(15), Jan(31)>>)>>,
      <<Period(TRUE, <<Jan(1), Jan(20)>>), Period(TRUE, <<Jan(15), Jan(31)>>)>>,
      <<Period(TRUE, <<Jan(10), Jan(1)>>), Period(TRUE, <<Jan(15), Jan(31)>>)>>,
      <<Period(TRUE, <<Jan(1), Jan(10)>>), Period(TRUE, <<Jan(31), Jan(15)>>)>>,
      <<Period(TRUE, <<DateStr(10, 3, 20231201), Jan(10)>>), Period(TRUE, <<Jan(15), Jan(31)>>)>>,
      <<Period(TRUE, <<Jan(1), Jan(10)>>), Period(TRUE, <<Jan(15), DateStr(10, 1, 1312024)>>)>>,
      <<Period(TRUE, <<DateStr(0, 1, 0), Jan(10)>>), Period(TRUE, <<Jan(15), Jan(31)>>)>>,
      <<Period(TRUE, <<Jan(1)>>), Period(TRUE, <<Jan(15), Jan(31)>>)>>,
      <<Period(FALSE, <<>>), Period(FALSE, <<>>)>> }

\* the checks winners_losers makes on its two arguments, the same in both
\* engines (query.py 1234-1255, query_bq.py 670-690): "ok" when all pass,
\* otherwise the exception raised.  The two order checks compare element [1]
\* with itself.
period_checks(period_from, period_to) ==
    IF ~period_from.is_list \/ Len(period_from.dates) # 2 THEN "ValueError"
    ELSE IF ~period_to.is_list \/ Len(period_to.dates) # 2 THEN "ValueError"
    ELSE IF \/ ~AllTruthy([i \in 1..2 |-> are_dates_parsable(period_from.dates[i])])
            \/ ~AllTruthy([i \in 1..2 |-> are_dates_parsable(period_to.dates[i])])
    THEN "ValueError"
    ELSE IF ~Parses(period_from.dates[2]) THEN "ValueError"
    ELSE IF period_from.dates[2].num < period_from.dates[2].num THEN "ValueError"
    ELSE IF ~Parses(period_to.dates[2]) THEN "ValueError"
    ELSE IF period_to.dates[2].num < period_to.dates[2].num THEN "ValueError"
    ELSE IF ~Parses(period_to.dates[1]) THEN "ValueError"
    ELSE IF period_from.dates[2].num > period_to.dates[1].num THEN "ValueError"
    ELSE "ok"

\* Report_BQ.winners_losers: the report's dates are the dictionary it shares
\* with the Query_BQ; strptime of a date that is None raises TypeError
bq_winners_losers(b, r, period_from, period_to) ==
    LET checks == period_checks(period_from, period_to)
        startDate == b.dates["startDate"]
        endDate == b.dates["endDate"]
    IN  IF checks # "ok" THEN BqOut(b, r, checks, <<>>, "nothing")
        ELSE IF startDate.none THEN BqOut(b, r, "TypeError", <<>>, "nothing")
        ELSE IF ~Parses(startDate) \/ ~Parses(period_from.dates[1])
        THEN BqOut(b, r, "ValueError", <<>>, "nothing")
        ELSE IF startDate.num > period_from.dates[1].num
        THEN BqOut(b, r, "ValueError", <<>>, "nothing")
        ELSE IF endDate.none THEN BqOut(b, r, "TypeError", <<>>, "nothing")
        ELSE IF ~Parses(endDate) THEN BqOut(b, r, "ValueError", <<>>, "nothing")
        ELSE IF endDate.num < period_to.dates[2].num
        THEN BqOut(b, r, "ValueError", <<>>, "nothing")
        ELSE IF r.estimate_cost
        THEN BqOut(b, r, "ok", <<"dry_run", "dry_run">>, "cost")
        ELSE BqOut(b, r, "ok", <<"read_gbq", "read_gbq">>, "DataFrame")

\* number_of_words is kept by whether it is an int and by its value
find_long_tail_keywords(b, r, number_of_words) ==
    IF number_of_words.kind # "int" THEN BqOut(b, r, "ValueError", <<>>, "nothing")
    ELSE IF number_of_words.val < 1 THEN BqOut(b, r, "ValueError", <<>>, "nothing")
    ELSE EstimateGate(b, r, <<>>)

\* line 775 calls .filter on what ctr_yield_curve returned: a DataFrame has
\* that method, the float of a cost estimate has not (AttributeError)
find_ctr_outliers(b, r) ==
    LET curve == bq_ctr_yield_curve(b, r)
    IN  IF curve.ret # "DataFrame"
        THEN BqOut(b, r, "AttributeError", curve.calls, "nothing")
        ELSE EstimateGate(b, r, curve.calls)

\* metric is kept as its name, dimensions by whether it is a list and by its elements
bq_abcd(b, r, metric, dims) ==
    IF metric \notin {"clicks", "impressions"} THEN BqOut(b, r, "ValueError", <<>>, "nothing")
    ELSE IF ~dims.is_list THEN BqOut(b, r, "ValueError", <<>>, "nothing")
    ELSE IF \E i \in 1..Len(dims.names) : dims.names[i] \notin DIMENSIONS_SITE \cup DIMENSIONS_URL
    THEN BqOut(b, r, "ValueError", <<>>, "nothing")
    ELSE EstimateGate(b, r, <<>>)

\* threshold_decay is kept by its type and its value in hundredths,
\* threshold_metric by its type and value
DecayArg(decay_kind, decay_pct, metric_kind, metric_val, type, period) ==
    [threshold_decay |-> [kind |-> decay_kind, val |-> decay_pct],
     threshold_metric |-> [kind |-> metric_kind, val |-> metric_val],
     type |-> type, period |-> period]

\* the arguments of an operation other than find_content_decay
NoDecayArg == DecayArg("", 0, "", 0, "", "")

\* no table has been read by find_content_decay
NoRead == [args |-> NoDecayArg, flagged |-> {}]

\* the defaults; a monthly decay of queries and one of urls; a weekly decay
\* of queries; an int threshold_decay; a
\* threshold_decay above 1; a negative threshold_metric; a daily period
DecayArgs ==
    { DecayArg("float", 25, "int", 100, "url", "week"),
      DecayArg("float", 50, "int", 0, "query", "month"),
      DecayArg("float", 50, "int", 100, "url", "month"),
      DecayArg("float", 25, "int", 100, "query", "week"),
      DecayArg("int", 100, "int", 100, "url", "week"),
      DecayArg("float", 150, "int", 100, "url", "week"),
      DecayArg("float", 25, "int", 0 - 1, "url", "week"),
      DecayArg("float", 25, "int", 100, "page", "day") }

\* Report_BQ.find_content_decay.  The SQL of the period 'week' groups by url
\* whatever the type: with the type 'query' the backend rejects it, in the
\* dry run and in the read alike
bq_find_content_decay(b, r, a) ==
    IF a.threshold_decay.kind # "float" THEN BqOut(b, r, "ValueError", <<>>, "nothing")
    ELSE IF a.threshold_decay.val < 1 \/ a.threshold_decay.val > 100
    THEN BqOut(b, r, "ValueError", <<>>, "nothing")
    ELSE IF a.threshold_metric.kind # "int" THEN BqOut(b, r, "ValueError", <<>>, "nothing")
    ELSE IF a.threshold_metric.val < 0 THEN BqOut(b, r, "ValueError", <<>>, "nothing")
    ELSE IF a.period \notin {"week", "month"} THEN BqOut(b, r, "ValueError", <<>>, "nothing")
    ELSE IF a.type \notin {"url", "query"} THEN BqOut(b, r, "ValueError", <<>>, "nothing")
    ELSE IF a.period = "week" /\ a.type # "url"
    THEN [EstimateGate(b, r, <<>>) EXCEPT !.status = "BadRequest", !.ret = "nothing"]
    ELSE EstimateGate(b, r, <<>>)

AbcdDimensionArgs ==
    { [is_list |-> TRUE, names |-> <<"url">>],
      [is_list |-> TRUE, names |-> <<"query", "page">>],
      [is_list |-> FALSE, names |-> <<>>] }

\* the arguments of the last warehouse operation that the properties read:
\* the two periods of winners_losers
NoPeriods == <<Period(FALSE, <<>>), Period(FALSE, <<>>)>>

\* a warehouse operation that ran to its end
BqCall(name, out) ==
    /\ bq' = out.bq
    /\ rep' = out.rep
    /\ bqOp' = [name |-> name, status |-> out.status, calls |-> out.calls, ret |-> out.ret]
    /\ bqArgs' = NoPeriods
    /\ bqRead' = NoRead
    /\ UNCHANGED warehouse

BqRange ==
    \E start \in BqDateArgs, stop \in BqDateArgs, earliest \in EarliestPartitions :
        BqCall("range", bq_range(bq, rep, start, stop, earliest))

BqFilter ==
    /\ Len(bq.filters_dimensions) < MaxBqFilters
    /\ \E a \in BqFilterArgs : BqCall("filter", bq_filter(bq, rep, a))

BqGet == BqCall("get", bq_get(bq, rep))

\* bqArgs keeps the value the call was given
BqDefineEstimateCost ==
    /\ rep.exists
    /\ \E value \in BOOLEAN :
          LET out == define_estimate_cost(bq, rep, value)
          IN  /\ bq' = out.bq
              /\ rep' = out.rep
              /\ bqOp' = [name |-> "define_estimate_cost", status |-> out.status,
                          calls |-> out.calls, ret |-> out.ret]
              /\ bqArgs' = <<[value |-> value]>>
              /\ bqRead' = NoRead
              /\ UNCHANGED warehouse

BqPagesNotInSitemap ==
    /\ rep.exists
    /\ \E url \in SitemapArgs : BqCall("pages_not_in_sitemap", pages_not_in_sitemap(bq, rep, url))

BqCtrYieldCurve ==
    /\ rep.exists
    /\ BqCall("ctr_yield_curve", bq_ctr_yield_curve(bq, rep))

BqGroupDataByPeriod ==
    /\ rep.exists
    /\ \E period \in {"M", "2W"} :
          BqCall("group_data_by_period", bq_group_data_by_period(bq, rep, period))

BqActivePages ==
    /\ rep.exists
    /\ \E sitemap_url \in BOOLEAN, urls \in BOOLEAN :
          BqCall("active_pages", bq_active_pages(bq, rep, sitemap_url, urls))

BqCannibalization ==
    /\ rep.exists
    /\ BqCall("cannibalization", EstimateGate(bq, rep, <<>>))

BqForecast ==
    /\ rep.exists
    /\ BqCall("forecast", EstimateGate(bq, rep, <<>>))

BqBrandVsNoBrand ==
    /\ rep.exists
    /\ BqCall("brand_vs_no_brand", EstimateGate(bq, rep, <<>>))

BqKeywordGap ==
    /\ rep.exists
    /\ \E df_is_dataframe \in BOOLEAN, column_in_df \in BOOLEAN :
          BqCall("keyword_gap", keyword_gap(bq, rep, df_is_dataframe, column_in_df))

BqCausalImpact ==
    /\ rep.exists
    /\ \E intervention_date \in BOOLEAN :
          BqCall("causal_impact", causal_impact(bq, rep, intervention_date))

BqFindPotentialContentsToKill ==
    /\ rep.exists
    /\ \E sitemap_url \in BOOLEAN :
          BqCall("find_potential_contents_to_kill",
                 find_potential_contents_to_kill(bq, rep, sitemap_url))

BqPositionOverTime ==
    /\ rep.exists
    /\ BqCall("position_over_time", EstimateGate(bq, rep, <<>>))

BqWinnersLosers ==
    /\ rep.exists
    /\ \E a \in WinnersLosersArgs :
          LET out == bq_winners_losers(bq, rep, a[1], a[2])
          IN  /\ bq' = out.bq
              /\ rep' = out.rep
              /\ bqOp' = [name |-> "winners_losers", status |-> out.status,
                          calls |-> out.calls, ret |-> out.ret]
              /\ bqArgs' = a
              /\ bqRead' = NoRead
              /\ UNCHANGED warehouse

BqFindLongTailKeywords ==
    /\ rep.exists
    /\ \E n \in { [kind |-> "int", val |-> 2], [kind |-> "int", val |-> 0],
                 [kind |-> "str", val |-> 0] } :
          BqCall("find_long_tail_keywords", find_long_tail_keywords(bq, rep, n))

BqFindCtrOutliers ==
    /\ rep.exists
    /\ BqCall("find_ctr_outliers", find_ctr_outliers(bq, rep))

BqAbcd ==
    /\ rep.exists
    /\ \E metric \in {"clicks", "ctr"}, dims \in AbcdDimensionArgs :
          BqCall("abcd", bq_abcd(bq, rep, metric, dims))

BqPagesPerDay ==
    /\ rep.exists
    /\ BqCall("pages_per_day", EstimateGate(bq, rep, <<>>))

BqPagesLifespan ==
    /\ rep.exists
    /\ BqCall("pages_lifespan", EstimateGate(bq, rep, <<>>))

BqSeasonalityPerDay ==
    /\ rep.exists
    /\ BqCall("seasonality_per_day", EstimateGate(bq, rep, <<>>))

BqUqc ==
    /\ rep.exists
    /\ BqCall("uqc", EstimateGate(bq, rep, <<>>))

InitBq ==
    /\ bq = InitQueryBq
    /\ bqArgs = NoPeriods
    /\ warehouse = <<>>
    /\ bqRead = NoRead
    /\ rep = NoReportBq
    /\ bqOp = [name |-> "__init__", status |-> "ok", calls |-> <<>>, ret |-> "nothing"]

NextBQ ==
    \/ (BqRange /\ UNCHANGED <<restVars, reportVars, authVars>>)
    \/ (BqFilter /\ UNCHANGED <<restVars, reportVars, authVars>>)
    \/ (BqGet /\ UNCHANGED <<restVars, reportVars, authVars>>)
    \/ (BqDefineEstimateCost /\ UNCHANGED <<restVars, reportVars, authVars>>)
    \/ (BqPagesNotInSitemap /\ UNCHANGED <<restVars, reportVars, authVars>>)

-----------------------------------------------------------------------------
(* The Report of the REST engine: query.py, class Report.                  *)
(* A table is kept as the names of its columns, in order, and its rows;    *)
(* of a row, the values of the columns date, page, query and clicks are    *)
(* kept (a date as the integer its digits spell, empty or 0 when the table *)
(* has no such column).  Of a column an operation adds, the name is kept.  *)

\* rows of the tables from which Reports are created
MaxRows == 2

\* columns up to which url_to_df is called again on the same Report
MaxColumns == 12

Elems(s) == {s[i] : i \in 1..Len(s)}

\* from_date and to_date of a Report without a date column (None)
NoDate == 0

Row(date, page, query, clicks) ==
    [date |-> date, page |-> page, query |-> query, clicks |-> clicks]

Pages == {"https://a.com/x", "https://a.com/y/z"}

\* the number of parts of the page after the third '/'
Folders(page) == IF page = "https://a.com/x" THEN 1 ELSE 2

FolderNames == <<"folder_1", "folder_2">>

\* the dimensions of the queries whose Reports are explored
DimensionLists == { <<"date", "page">>, <<"page", "query">>, <<"query">> }

RowsFor(dims) ==
    { Row(d, pg, q, c) :
        d \in (IF "date" \in Elems(dims) THEN {Jan(1).num, Jan(31).num} ELSE {0}),
        pg \in (IF "page" \in Elems(dims) THEN Pages ELSE {""}),
        q \in (IF "query" \in Elems(dims) THEN {"shoes"} ELSE {""}),
        c \in {0, 3} }

DistinctKeys(rows) ==
    \A i \in 1..Len(rows), j \in 1..Len(rows) :
        i # j => <<rows[i].date, rows[i].page, rows[i].query>>
                 # <<rows[j].date, rows[j].page, rows[j].query>>

\* the tables get() builds (BuildDf) for these dimensions: the dimensions,
\* then the metrics; at least one row; no two rows with the same keys
TablesFor(dims) ==
    { [columns |-> dims \o MetricNames, rows |-> rows] :
        rows \in { rs \in UNION { [1..n -> RowsFor(dims)] : n \in 1..MaxRows } :
                     DistinctKeys(rs) } }

EngineTables == UNION { TablesFor(dims) : dims \in DimensionLists }

\* df.date.min() and df.date.max() of a table with rows
DateMin(df) == CHOOSE d \in {df.rows[i].date : i \in 1..Len(df.rows)} :
                  \A i \in 1..Len(df.rows) : d <= df.rows[i].date

DateMax(df) == CHOOSE d \in {df.rows[i].date : i \in 1..Len(df.rows)} :
                  \A i \in 1..Len(df.rows) : d >= df.rows[i].date

\* Report.__init__
Report(df) ==
    LET IsDimension(column) == column \in DIMENSIONS
        IsMetric(column) == column \notin DIMENSIONS
        dims == SelectSeq(df.columns, IsDimension)
    IN  [dimensions |-> dims,
         metrics |-> SelectSeq(df.columns, IsMetric),
         from_date |-> IF "date" \in Elems(dims) THEN DateMin(df) ELSE NoDate,
         to_date |-> IF "date" \in Elems(dims) THEN DateMax(df) ELSE NoDate,
         df |-> df]

NoReportR ==
    [dimensions |-> <<>>, metrics |-> <<>>, from_date |-> NoDate, to_date |-> NoDate,
     df |-> [columns |-> <<>>, rows |-> <<>>]]

\* the outcome of an operation of a Report: the Report it was called on
\* afterwards, how it ended, what it returned ("Report": a new Report,
\* "self": the Report itself, "DataFrame", "nothing") and the Report or the
\* table returned; of a table an analytic operation returns, labels holds
\* what abcd computes, pairs what cannibalization computes, flagged what
\* find_content_decay computes and table the rows of any other; args holds
\* the arguments find_content_decay was given
ROut(self, status, ret, result) ==
    [self |-> self, status |-> status, ret |-> ret, result |-> result,
     labels |-> <<>>, pairs |-> {}, table |-> <<>>, flagged |-> {}, kept |-> {},
     args |-> NoDecayArg]

RRaise(r, exc) == ROut(r, exc, "nothing", NoReportR)

\* a pandas query string, kept as the column it names, the comparison and the value
FilterQueries ==
    { [column |-> "date", op |-> ">=", value |-> Jan(31).num],
      [column |-> "clicks", op |-> ">", value |-> 0] }

\* Report.filter: DataFrame.query on a deep copy; a query that names a
\* column the table has not raises pandas' UndefinedVariableError
report_filter(r, query) ==
    LET Matches(row) ==
            IF query.column = "date" THEN row.date >= query.value
            ELSE row.clicks > query.value
    IN  IF query.column \notin Elems(r.df.columns)
        THEN RRaise(r, "UndefinedVariableError")
        ELSE ROut(r, "ok", "Report", [r EXCEPT !.df.rows = SelectSeq(@, Matches)])

MaxFolders(rows) ==
    IF \E i \in 1..Len(rows) : Folders(rows[i].page) = 2 THEN 2
    ELSE IF rows # <<>> THEN 1 ELSE 0

\* DataFrame.assign replaces a column of that name or appends it
Assign(columns, name) == IF name \in Elems(columns) THEN columns ELSE Append(columns, name)

\* Report.url_to_df: assigns self.df and returns self
url_to_df(r) ==
    IF "page" \notin Elems(r.dimensions) THEN RRaise(r, "ValueError")
    ELSE LET assigned == Assign(Assign(Assign(Assign(r.df.columns,
                              "scheme"), "netloc"), "path"), "last_folder")
             updated == [r EXCEPT !.df.columns =
                            assigned \o SubSeq(FolderNames, 1, MaxFolders(r.df.rows))]
         IN  ROut(updated, "ok", "self", updated)

\* a redirect mapping: whether it is a DataFrame, whether it has the columns
\* 'from' and 'to', and its one row
RedirectArgs ==
    { [is_dataframe |-> TRUE, has_from_to |-> TRUE,
       from |-> "https://a.com/x", to |-> "https://a.com/y/z"],
      [is_dataframe |-> TRUE, has_from_to |-> FALSE, from |-> "", to |-> ""],
      [is_dataframe |-> FALSE, has_from_to |-> FALSE, from |-> "", to |-> ""] }

\* Report.update_urls: the left merge adds the columns 'from' and 'to'
update_urls(r, redirect_mapping) ==
    IF ~redirect_mapping.is_dataframe THEN RRaise(r, "ValueError")
    ELSE IF ~redirect_mapping.has_from_to THEN RRaise(r, "ValueError")
    ELSE IF "page" \notin Elems(r.dimensions) THEN RRaise(r, "ValueError")
    ELSE LET Redirect(row) ==
                 IF row.page = redirect_mapping.from
                 THEN [row EXCEPT !.page = redirect_mapping.to] ELSE row
         IN  ROut(r, "ok", "Report",
                  [r EXCEPT !.df.columns = @ \o <<"from", "to">>,
                            !.df.rows = [i \in 1..Len(@) |-> Redirect(@[i])]])

\* the characters of the pages and of the rules' texts, cut into the pieces
\* the texts of the model share
TextOf(s) ==
    CASE s = "https://a.com/x" -> <<"http", "s://", "a.com", "/x">>
      [] s = "https://a.com/y/z" -> <<"http", "s://", "a.com", "/y", "/z">>
      [] s = "/z$" -> <<"/z", "$">>
      [] OTHER -> <<s>>

\* needle in hay
IsInfix(needle, hay) ==
    \E k \in 0..(Len(hay) - Len(needle)) :
        \A i \in 1..Len(needle) : hay[k + i] = needle[i]

\* hay.endswith(needle)
IsSuffix(needle, hay) ==
    /\ Len(needle) <= Len(hay)
    /\ \A i \in 1..Len(needle) : hay[Len(hay) - Len(needle) + i] = needle[i]

\* self.df['page'].str.contains(rule, regex=False)
StrContains(page, rule) == IsInfix(TextOf(rule), TextOf(page))

\* self.df['page'].str.contains(rule, regex=True): re.search; of the rules'
\* texts only '/z$' holds a character the regular expressions read as an
\* anchor
StrSearch(page, rule) ==
    IF rule = "/z$" THEN IsSuffix(<<"/z">>, TextOf(page))
    ELSE IsInfix(TextOf(rule), TextOf(page))

\* the condition of a rule on a page (lines 1619-1625)
RuleMatches(page, rule) ==
    CASE rule.type = "equals" -> page = rule.rule
      [] rule.type = "contains" -> StrContains(page, rule.rule)
      [] rule.type = "includingRegex" -> StrSearch(page, rule.rule)
      [] OTHER -> FALSE

\* the most rules of a classification
MaxRules == 2

\* the rows a rules DataFrame may hold
RuleRows ==
    { [category |-> "X", rule |-> "https://a.com/x", type |-> "equals"],
      [category |-> "A", rule |-> "a.com", type |-> "contains"],
      [category |-> "Y", rule |-> "/y", type |-> "contains"],
      [category |-> "Z", rule |-> "/z$", type |-> "includingRegex"],
      [category |-> "N", rule |-> "/z$", type |-> "contains"] }

\* the caselist of lines 1616-1628: the rules' conditions in the order of the
\* rules, then 'Other' for the pages that contain 'http'
Caselist(rows) ==
    [i \in 1..Len(rows) |-> rows[i]]
        \o <<[category |-> "Other", rule |-> "http", type |-> "contains"]>>

\* Series.case_when with the last condition that holds winning
RECURSIVE CaseWhen_Last(_, _)
CaseWhen_Last(page, caselist) ==
    IF caselist = <<>> THEN page
    ELSE IF RuleMatches(page, caselist[Len(caselist)])
         THEN caselist[Len(caselist)].category
         ELSE CaseWhen_Last(page, SubSeq(caselist, 1, Len(caselist) - 1))

\* Series.case_when: the replacement of the first condition that holds, the
\* value itself where none holds
RECURSIVE CaseWhen(_, _)
CaseWhen(page, caselist) ==
    IF caselist = <<>> THEN page
    ELSE IF RuleMatches(page, Head(caselist)) THEN Head(caselist).category
         ELSE CaseWhen(page, Tail(caselist))

\* classification rules: whether they are a DataFrame, have the columns
\* category, rule and type, and have supported types only; and their rows
RulesArgs ==
    { [is_dataframe |-> TRUE, has_columns |-> TRUE, types_ok |-> TRUE, rows |-> <<>>],
      [is_dataframe |-> TRUE, has_columns |-> TRUE, types_ok |-> FALSE, rows |-> <<>>],
      [is_dataframe |-> TRUE, has_columns |-> FALSE, types_ok |-> FALSE, rows |-> <<>>],
      [is_dataframe |-> FALSE, has_columns |-> FALSE, types_ok |-> FALSE, rows |-> <<>>] }

\* the rules DataFrames of supported types, of up to MaxRules rows
RuleTables ==
    { [is_dataframe |-> TRUE, has_columns |-> TRUE, types_ok |-> TRUE, rows |-> rows] :
        rows \in UNION { [1..n -> RuleRows] : n \in 0..MaxRules } }

\* Report.classify_pages: a copy with the column 'category'; labels holds the
\* category of each row, args the rules of the call
classify_pages(r, rules) ==
    IF "page" \notin Elems(r.dimensions) THEN RRaise(r, "ValueError")
    ELSE IF ~rules.is_dataframe THEN RRaise(r, "ValueError")
    ELSE IF ~rules.has_columns THEN RRaise(r, "ValueError")
    ELSE IF ~rules.types_ok THEN RRaise(r, "ValueError")
    ELSE [ROut(r, "ok", "Report", [r EXCEPT !.df.columns = Assign(@, "category")])
            EXCEPT !.args = rules,
                   !.labels = [i \in 1..Len(r.df.rows) |->
                                 [page |-> r.df.rows[i].page,
                                  category |-> CaseWhen(r.df.rows[i].page,
                                                        Caselist(rules.rows))]]]

\* Report.add_first_found: a copy with the column 'first_found_<dimension>'
add_first_found(r, dimension) ==
    IF dimension \notin {"page", "query"} THEN RRaise(r, "ValueError")
    ELSE IF dimension \notin Elems(r.dimensions) THEN RRaise(r, "ValueError")
    ELSE IF "date" \notin Elems(r.dimensions) THEN RRaise(r, "ValueError")
    ELSE ROut(r, "ok", "Report",
              [r EXCEPT !.df.columns =
                  Append(@, IF dimension = "page" THEN "first_found_page"
                            ELSE "first_found_query")])

\* Report.get_response_codes: a copy with the column 'response_code'
get_response_codes(r) ==
    IF "page" \notin Elems(r.dimensions) THEN RRaise(r, "ValueError")
    ELSE ROut(r, "ok", "Report", [r EXCEPT !.df.columns = Append(@, "response_code")])

RECURSIVE SumOf(_)
SumOf(ns) == IF ns = <<>> THEN 0 ELSE ns[1] + SumOf(Tail(ns))

RECURSIVE SortDescending(_)
\* sort_values(metric, ascending=False), of the metric's values
SortDescending(ns) ==
    IF ns = <<>> THEN <<>>
    ELSE LET i == CHOOSE k \in 1..Len(ns) : \A l \in 1..Len(ns) : ns[k] >= ns[l]
         IN  <<ns[i]>> \o SortDescending(SubSeq(ns, 1, i - 1) \o SubSeq(ns, i + 1, Len(ns)))

\* round(100 * cumsum / total, 2), in hundredths of a percent (round half to even)
CumulativePercent(cumsum, total) ==
    LET q == (10000 * cumsum) \div total
        rest == (10000 * cumsum) % total
    IN  IF 2 * rest < total THEN q
        ELSE IF 2 * rest > total THEN q + 1
        ELSE IF q % 2 = 0 THEN q ELSE q + 1

\* the case_when of abcd on a cumulative percentage in hundredths; a value in
\* no band keeps what the column held, the percentage itself
AbcdClass(pct) ==
    IF 0 <= pct /\ pct < 5000 THEN "A"
    ELSE IF 5000 <= pct /\ pct < 7500 THEN "B"
    ELSE IF 7500 <= pct /\ pct < 9000 THEN "C"
    ELSE IF 9000 <= pct /\ pct <= 10000 THEN "D"
    ELSE "percentage"

\* Report.abcd; the metric's values are kept for clicks.  With a total of 0
\* the division gives NaN for every row, NaN lies in no band and the abcd
\* column keeps it
abcd(r, metric) ==
    IF metric \notin Elems(r.metrics) THEN RRaise(r, "ValueError")
    ELSE LET sorted == SortDescending([i \in 1..Len(r.df.rows) |-> r.df.rows[i].clicks])
             total == SumOf(sorted)
             Class(i) == IF total = 0 THEN "NaN"
                         ELSE AbcdClass(CumulativePercent(SumOf(SubSeq(sorted, 1, i)), total))
         IN  [ROut(r, "ok", "DataFrame", NoReportR) EXCEPT
                 !.labels = [i \in 1..Len(sorted) |-> [metric |-> sorted[i], abcd |-> Class(i)]]]

\* Report.winners_losers: the checks on the report, on the arguments, and of
\* the dates of the table against the two periods
winners_losers(r, period_from, period_to) ==
    LET checks == period_checks(period_from, period_to)
    IN  IF ~({"page", "date"} \subseteq Elems(r.dimensions)) THEN RRaise(r, "ValueError")
        ELSE IF "clicks" \notin Elems(r.metrics) THEN RRaise(r, "ValueError")
        ELSE IF checks # "ok" THEN RRaise(r, checks)
        ELSE IF ~Parses(period_from.dates[1]) THEN RRaise(r, "ValueError")
        ELSE IF DateMin(r.df) > period_from.dates[1].num THEN RRaise(r, "ValueError")
        ELSE IF DateMax(r.df) < period_to.dates[2].num THEN RRaise(r, "ValueError")
        ELSE ROut(r, "ok", "DataFrame", NoReportR)

\* str.contains of a query and one brand variant
Contains(query, variant) == query = "acme shoes" /\ variant = "acme"

\* query.str.contains("|".join(brand_variants)): the pattern of an empty
\* list is the empty string, which every query contains
Branded(query, brand_variants) ==
    IF brand_variants = <<>> THEN TRUE
    ELSE \E i \in 1..Len(brand_variants) : Contains(query, brand_variants[i])

\* the clicks of the rows of a table whose (query, page) pair is in a set
ClicksIn(rows, prs) ==
    SumOf([i \in 1..Len(rows) |->
              IF <<rows[i].query, rows[i].page>> \in prs THEN rows[i].clicks ELSE 0])

\* the (query, page) pairs Report.cannibalization returns, without the last
\* selection of the queries that still have two pairs
cannibalization_pairs_NoKeep(rows, brand_variants) ==
    LET df == { <<rows[i].query, rows[i].page>> : i \in
                  { k \in 1..Len(rows) : ~Branded(rows[k].query, brand_variants) } }
        Clicks(pr) == ClicksIn(rows, {pr})
        ClicksQuery(q) == ClicksIn(rows, {pr \in df : pr[1] = q})
        ClicksPage(pg) == ClicksIn(rows, {pr \in df : pr[2] = pg})
        df_query == { q \in {pr[1] : pr \in df} :
                        /\ Cardinality({pr \in df : pr[1] = q}) >= 2
                        /\ ClicksQuery(q) >= 1 }
        final == { pr \in df : pr[1] \in df_query }
        ClickPct(pr) == 10 * Clicks(pr) >= ClicksQuery(pr[1])
        ClickPctPage(pr) == ClicksPage(pr[2]) # 0 /\ 10 * Clicks(pr) >= ClicksPage(pr[2])
        queries_to_keep ==
            { q \in df_query : Cardinality({pr \in final : pr[1] = q /\ ClickPct(pr)}) >= 2 }
    IN  { pr \in final : pr[1] \in queries_to_keep /\ ClickPctPage(pr) /\ ClickPct(pr) }

\* the (query, page) pairs Report.cannibalization returns (613-706): click
\* percentages are compared as the fractions they are, a page without
\* clicks gives the NaN that fails every comparison
cannibalization_pairs(rows, brand_variants) ==
    LET df == { <<rows[i].query, rows[i].page>> : i \in
                  { k \in 1..Len(rows) : ~Branded(rows[k].query, brand_variants) } }
        Clicks(pr) == ClicksIn(rows, {pr})
        ClicksQuery(q) == ClicksIn(rows, {pr \in df : pr[1] = q})
        ClicksPage(pg) == ClicksIn(rows, {pr \in df : pr[2] = pg})
        df_query == { q \in {pr[1] : pr \in df} :
                        /\ Cardinality({pr \in df : pr[1] = q}) >= 2
                        /\ ClicksQuery(q) >= 1 }
        final == { pr \in df : pr[1] \in df_query }
        ClickPct(pr) == 10 * Clicks(pr) >= ClicksQuery(pr[1])
        ClickPctPage(pr) == ClicksPage(pr[2]) # 0 /\ 10 * Clicks(pr) >= ClicksPage(pr[2])
        queries_to_keep ==
            { q \in df_query : Cardinality({pr \in final : pr[1] = q /\ ClickPct(pr)}) >= 2 }
        opportunities ==
            { pr \in final : pr[1] \in queries_to_keep /\ ClickPctPage(pr) /\ ClickPct(pr) }
    IN  { pr \in opportunities : Cardinality({o \in opportunities : o[1] = pr[1]}) >= 2 }

\* lines 613-621: the (query, page) pairs left once the branded queries are
\* removed
Unbranded(rows, brand_variants) ==
    { <<rows[i].query, rows[i].page>> : i \in
        { k \in 1..Len(rows) : ~Branded(rows[k].query, brand_variants) } }

\* Report.cannibalization; kept holds the pairs left by the removal of the
\* branded queries, args the brand variants of the call
cannibalization(r, brand_variants) ==
    IF ~({"query", "page"} \subseteq Elems(r.dimensions)) THEN RRaise(r, "ValueError")
    ELSE IF ~({"clicks", "impressions"} \subseteq Elems(r.metrics)) THEN RRaise(r, "ValueError")
    ELSE [ROut(r, "ok", "DataFrame", NoReportR) EXCEPT
             !.pairs = cannibalization_pairs(r.df.rows, brand_variants),
             !.kept = Unbranded(r.df.rows, brand_variants),
             !.args = [brand_variants |-> brand_variants]]

\* the tables of the (query, page) pairs on which cannibalization is
\* explored: every pair is absent (a negative number below) or has 0, 1 or
\* 20 clicks
PairList ==
    << <<"shoes", "https://a.com/x">>, <<"shoes", "https://a.com/y/z">>,
       <<"boots", "https://a.com/x">>, <<"boots", "https://a.com/y/z">>,
       <<"acme shoes", "https://a.com/x">>, <<"acme shoes", "https://a.com/y/z">> >>

RECURSIVE PairRows(_, _)
PairRows(clicks, k) ==
    IF k > Len(PairList) THEN <<>>
    ELSE (IF clicks[k] < 0 THEN <<>>
          ELSE <<Row(0, PairList[k][2], PairList[k][1], clicks[k])>>) \o PairRows(clicks, k + 1)

PairTables ==
    { [columns |-> <<"query", "page">> \o MetricNames, rows |-> PairRows(clicks, 1)] :
        clicks \in { c \in [1..Len(PairList) -> {0 - 1, 0, 1, 20}] : PairRows(c, 1) # <<>> } }

BrandVariantArgs == { <<"acme">>, <<>> }

\* no operation of the Report has been called
NoCall == [name |-> "__init__", status |-> "ok", ret |-> "nothing", args |-> NoDecayArg]

\* what the last operation of the Report returned
NoOut ==
    [result |-> NoReportR, labels |-> <<>>, pairs |-> {}, table |-> <<>>, flagged |-> {},
     kept |-> {}]

\* an operation of the Report that ran to its end
RCall(name, out) ==
    /\ rpt' = out.self
    /\ rptOp' = [name |-> name, status |-> out.status, ret |-> out.ret, args |-> out.args]
    /\ rptOut' = [result |-> out.result, labels |-> out.labels, pairs |-> out.pairs,
                   table |-> out.table, flagged |-> out.flagged, kept |-> out.kept]

RFilter == \E query \in FilterQueries : RCall("filter", report_filter(rpt, query))

RUrlToDf ==
    /\ Len(rpt.df.columns) < MaxColumns
    /\ RCall("url_to_df", url_to_df(rpt))

RUpdateUrls == \E mapping \in RedirectArgs : RCall("update_urls", update_urls(rpt, mapping))

RClassifyPages == \E rules \in RulesArgs : RCall("classify_pages", classify_pages(rpt, rules))

\* classify_pages called with rules of supported types
RClassifyByRules ==
    \E rules \in RuleTables : RCall("classify_pages", classify_pages(rpt, rules))

RAddFirstFound ==
    \E dimension \in {"page", "query", "date"} :
        RCall("add_first_found", add_first_found(rpt, dimension))

RGetResponseCodes == RCall("get_response_codes", get_response_codes(rpt))

RAbcd == \E metric \in {"clicks", "revenue"} : RCall("abcd", abcd(rpt, metric))

RWinnersLosers ==
    \E a \in WinnersLosersArgs : RCall("winners_losers", winners_losers(rpt, a[1], a[2]))

RCannibalization ==
    \E brand_variants \in BrandVariantArgs :
        RCall("cannibalization", cannibalization(rpt, brand_variants))

\* no Report of the REST engine is in use
InitReportIdle ==
    /\ rpt = NoReportR
    /\ rptOp = NoCall
    /\ rptOut = NoOut

\* a Report an engine has just created
InitReport ==
    /\ rpt \in { Report(df) : df \in EngineTables }
    /\ rptOp = NoCall
    /\ rptOut = NoOut

\* the most rows of the tables whose pages are classified
MaxClassifyRows == 2

\* a Report just created over the pages of a query by page
InitClassifyReport ==
    /\ rpt \in { Report(df) : df \in { t \in TablesFor(<<"page">>) :
                                          Len(t.rows) <= MaxClassifyRows } }
    /\ rptOp = NoCall
    /\ rptOut = NoOut

\* a Report just created over a table of (query, page) pairs
InitPairReport ==
    /\ rpt \in { Report(df) : df \in PairTables }
    /\ rptOp = NoCall
    /\ rptOut = NoOut

NextReport ==
    \/ (RFilter /\ UNCHANGED <<restVars, bqVars, authVars>>)
    \/ (RUrlToDf /\ UNCHANGED <<restVars, bqVars, authVars>>)
    \/ (RUpdateUrls /\ UNCHANGED <<restVars, bqVars, authVars>>)
    \/ (RClassifyPages /\ UNCHANGED <<restVars, bqVars, authVars>>)
    \/ (RAddFirstFound /\ UNCHANGED <<restVars, bqVars, authVars>>)
    \/ (RGetResponseCodes /\ UNCHANGED <<restVars, bqVars, authVars>>)
    \/ (RAbcd /\ UNCHANGED <<restVars, bqVars, authVars>>)
    \/ (RWinnersLosers /\ UNCHANGED <<restVars, bqVars, authVars>>)
    \/ (RCannibalization /\ UNCHANGED <<restVars, bqVars, authVars>>)

NextCannibalization == RCannibalization /\ UNCHANGED <<restVars, bqVars, authVars>>

NextClassify == RClassifyByRules /\ UNCHANGED <<restVars, bqVars, authVars>>

-----------------------------------------------------------------------------
(* find_content_decay of the two engines.  The dates explored are all of   *)
(* 2024, whose first day is a Monday; a date is kept as the number its     *)
(* digits spell, 20240108 for 2024-01-08, a period '2024-01' as 202401.    *)

\* rows of the tables on which the decay of the REST engine is computed
MaxDecayRows == 3

\* rows of the tables on which the decay of both engines is computed
MaxEngineRows == 3

MonthOf(d) == (d \div 100) % 100

DayOf(d) == d % 100

DaysInMonth(m) == IF m = 2 THEN 29 ELSE IF m \in {4, 6, 9, 11} THEN 30 ELSE 31

RECURSIVE DaysBefore(_)
DaysBefore(m) == IF m <= 1 THEN 0 ELSE DaysInMonth(m - 1) + DaysBefore(m - 1)

DayOfYear(d) == DaysBefore(MonthOf(d)) + DayOf(d)

\* Timestamp.dayofweek: 0 for a Monday, 6 for a Sunday
DayOfWeek(d) == (DayOfYear(d) - 1) % 7

IsMonthEnd(d) == DayOf(d) = DaysInMonth(MonthOf(d))

\* date + pd.offsets.MonthBegin(1): the first day of the month after
NextMonthBegin(d) ==
    IF MonthOf(d) = 12 THEN (d \div 10000 + 1) * 10000 + 101
    ELSE (d \div 100 + 1) * 100 + 1

\* date - pd.offsets.MonthEnd(1): the last day of the month before
PreviousMonthEnd(d) ==
    IF MonthOf(d) = 1 THEN (d \div 10000 - 1) * 10000 + 1231
    ELSE (d \div 100 - 1) * 100 + DaysInMonth(MonthOf(d) - 1)

\* date + pd.offsets.Week(0): an offset of zero weeks with no weekday given
\* adds zero times seven days
WeekOffset0(d) == d

\* strftime('%U'): the number of the week of the year, weeks starting on a
\* Sunday, the days before the first Sunday in week 0
WeekU(d) == (DayOfYear(d) - 1 + 7 - ((DayOfWeek(d) + 1) % 7)) \div 7

\* df_['date'].dt.strftime(date_format)
DatePeriod(d, period) ==
    IF period = "month" THEN d \div 100 ELSE (d \div 10000) * 100 + WeekU(d)

\* start_date of Report.find_content_decay
StartDate(df, period) ==
    LET start_date == DateMin(df)
    IN  IF period = "month"
        THEN (IF DayOf(start_date) # 1 THEN NextMonthBegin(start_date) ELSE start_date)
        ELSE (IF DayOfWeek(start_date) # 0 THEN WeekOffset0(start_date) ELSE start_date)

\* end_date of Report.find_content_decay
EndDate(df, period) ==
    LET end_date == DateMax(df)
    IN  IF period = "month"
        THEN (IF ~IsMonthEnd(end_date) THEN PreviousMonthEnd(end_date) ELSE end_date)
        ELSE (IF DayOfWeek(end_date) # 6 THEN WeekOffset0(end_date) ELSE end_date)

\* the column of a row that type names ('url' is the page of the warehouse)
EntityOf(row, type) == IF type = "query" THEN row.query ELSE row.page

\* groupby([type, 'date_period']).agg(sum), of rows kept as entity,
\* date_period and metric
GroupSum(labelled) ==
    LET Of(k) == [i \in 1..Len(labelled) |->
                    IF <<labelled[i].entity, labelled[i].date_period>> = k
                    THEN labelled[i].metric ELSE 0]
    IN  { [entity |-> k[1], date_period |-> k[2], metric |-> SumOf(Of(k))] :
            k \in { <<labelled[i].entity, labelled[i].date_period>> : i \in 1..Len(labelled) } }

\* groupby(type)[metric].transform('max')
MetricMax(grouped, entity) ==
    LET values == { g.metric : g \in { h \in grouped : h.entity = entity } }
    IN  CHOOSE m \in values : \A v \in values : v <= m

\* the date_period of a row that sort_values(metric, ascending=False) can
\* put first: one with the largest metric of the whole table
TopPeriods(grouped) ==
    { g.date_period : g \in { h \in grouped : \A o \in grouped : o.metric <= h.metric } }

\* round(1 - last / max, 3) in thousandths, a half rounded to the even neighbour
DecayOf(last, max) ==
    LET q == (1000 * (max - last)) \div max
        rest == (1000 * (max - last)) % max
    IN  IF 2 * rest < max THEN q
        ELSE IF 2 * rest > max THEN q + 1
        ELSE IF q % 2 = 0 THEN q ELSE q + 1

\* lines 1139-1150: the rows between start_date and end_date, summed by
\* entity and period
RestGrouped(r, a) ==
    LET start_date == StartDate(r.df, a.period)
        end_date == EndDate(r.df, a.period)
        Within(row) == start_date <= row.date /\ row.date <= end_date
        rows == SelectSeq(r.df.rows, Within)
    IN  GroupSum([i \in 1..Len(rows) |->
                    [entity |-> EntityOf(rows[i], a.type),
                     date_period |-> DatePeriod(rows[i].date, a.period),
                     metric |-> rows[i].clicks]])

\* .query('metric_max >= @threshold_metric')
AboveThreshold(metric_max, threshold_metric) == metric_max >= threshold_metric

\* lines 1151-1176: period_max is the period of the first row of the whole
\* table sorted by the metric, top; with a metric_max of 0 the decay is NaN,
\* which is not >= the threshold
RestFlagged(r, a, top) ==
    LET grouped == RestGrouped(r, a)
        last == DatePeriod(EndDate(r.df, a.period), a.period)
        Max(g) == MetricMax(grouped, g.entity)
    IN  { [entity |-> g.entity, metric_last_period |-> g.metric, metric_max |-> Max(g),
           period_max |-> top, decay |-> DecayOf(g.metric, Max(g)),
           decay_abs |-> Max(g) - g.metric] :
            g \in { h \in grouped :
                      /\ AboveThreshold(Max(h), a.threshold_metric.val)
                      /\ h.date_period = last
                      /\ Max(h) > 0
                      /\ DecayOf(h.metric, Max(h)) >= 10 * a.threshold_decay.val } }

\* Report.find_content_decay, of the metric clicks; iloc[0] of a table
\* without rows raises IndexError
find_content_decay(r, a, top) ==
    IF ~({a.type, "date"} \subseteq Elems(r.dimensions)) THEN RRaise(r, "ValueError")
    ELSE IF "clicks" \notin Elems(r.metrics) THEN RRaise(r, "ValueError")
    ELSE IF a.threshold_decay.kind # "float" THEN RRaise(r, "ValueError")
    ELSE IF a.threshold_decay.val < 1 \/ a.threshold_decay.val > 100
    THEN RRaise(r, "ValueError")
    ELSE IF a.threshold_metric.kind # "int" THEN RRaise(r, "ValueError")
    ELSE IF a.threshold_metric.val < 0 THEN RRaise(r, "ValueError")
    ELSE IF a.period \notin {"week", "month"} THEN RRaise(r, "ValueError")
    ELSE IF a.type \notin {"page", "query"} THEN RRaise(r, "ValueError")
    ELSE IF RestGrouped(r, a) = {} THEN RRaise(r, "IndexError")
    ELSE [ROut(r, "ok", "DataFrame", NoReportR) EXCEPT
             !.flagged = RestFlagged(r, a, top), !.args = a]

\* a weekly and a monthly decay of the pages, one of the queries, a daily one
RestDecayArgs ==
    { DecayArg("float", 25, "int", 100, "page", "week"),
      DecayArg("float", 50, "int", 100, "page", "month"),
      DecayArg("float", 25, "int", 100, "query", "week"),
      DecayArg("float", 25, "int", 100, "page", "day") }

\* the (date, page) keys of the tables explored: Monday 1, Monday 8, Sunday
\* 14 and Sunday 21 January, Thursday 29 February
DecayKeys ==
    << <<20240101, "https://a.com/x">>, <<20240101, "https://a.com/y/z">>,
       <<20240108, "https://a.com/x">>, <<20240108, "https://a.com/y/z">>,
       <<20240114, "https://a.com/x">>, <<20240114, "https://a.com/y/z">>,
       <<20240121, "https://a.com/x">>, <<20240121, "https://a.com/y/z">>,
       <<20240229, "https://a.com/x">>, <<20240229, "https://a.com/y/z">> >>

RECURSIVE DecayRows(_, _)
\* the rows of the keys that have clicks, from key k on
DecayRows(clicks, k) ==
    IF k > Len(DecayKeys) THEN <<>>
    ELSE (IF k \notin DOMAIN clicks THEN <<>>
          ELSE <<Row(DecayKeys[k][1], DecayKeys[k][2], "", clicks[k])>>)
         \o DecayRows(clicks, k + 1)

\* the tables of 1 to n rows over the keys of these pages, in the order of
\* the keys, a row with 0, 100 or 200 clicks
DecayTables(n, urls) ==
    { [columns |-> <<"date", "page">> \o MetricNames, rows |-> DecayRows(clicks, 1)] :
        clicks \in UNION { [ks -> {0, 100, 200}] :
                             ks \in { s \in SUBSET { k \in 1..Len(DecayKeys) :
                                                       DecayKeys[k][2] \in urls } :
                                        Cardinality(s) \in 1..n } } }

\* the top rows from which the sort can choose, 0 when there is no table to sort
TopChoices(r, a) == IF RestGrouped(r, a) = {} THEN {0} ELSE TopPeriods(RestGrouped(r, a))

RFindContentDecay ==
    \E a \in RestDecayArgs :
        \E top \in TopChoices(rpt, a) :
            RCall("find_content_decay", find_content_decay(rpt, a, top))

\* EXTRACT(ISOWEEK FROM date); week 1 of 2024 starts on 1 January
IsoWeek(d) == (DayOfYear(d) - 1) \div 7 + 1

\* the CASE that builds date_period in raw_data_within_period
BqDatePeriod(d, period) ==
    IF period = "month" THEN d \div 100 ELSE (d \div 10000) * 100 + IsoWeek(d)

\* first_monday and last_sunday (period 'week'), first_day and last_day
\* (period 'month') of the rows raw_data, of 2024; today is CURRENT_DATE().
\* The bounds of a week are kept as days of the year, those of a month as dates
BqWindow(raw_data, period, today) ==
    LET df == [rows |-> raw_data]
        min_date == DateMin(df)
        max_date == DateMax(df)
    IN  IF period = "month"
        THEN [first |-> IF DayOf(min_date) = 1 THEN min_date ELSE NextMonthBegin(min_date),
              last |-> IF IsMonthEnd(max_date) THEN max_date ELSE PreviousMonthEnd(today)]
        ELSE [first |-> DayOfYear(min_date) + (7 - DayOfWeek(min_date)),
              last |-> DayOfYear(max_date) - ((DayOfWeek(max_date) + 1) % 7)]

\* ROUND(1 - last / max, 3) of BigQuery in thousandths, a half rounded away from zero
BqDecayOf(last, max) ==
    LET q == (1000 * (max - last)) \div max
        rest == (1000 * (max - last)) % max
    IN  IF 2 * rest < max THEN q ELSE q + 1

\* the rows the SQL of Report_BQ.find_content_decay selects from the rows of
\* the table, without filters: raw_data, raw_data_within_period, data_rank,
\* data_current, final_data and the last WHERE
BqFlagged(rows, dates, a, today) ==
    LET InRange(row) ==
            dates["startDate"].num <= row.date /\ row.date <= dates["endDate"].num
        raw_data == SelectSeq(rows, InRange)
        window == BqWindow(raw_data, a.period, today)
        Within(row) ==
            IF a.period = "month" THEN window.first <= row.date /\ row.date <= window.last
            ELSE window.first <= DayOfYear(row.date) /\ DayOfYear(row.date) <= window.last
        within == SelectSeq(raw_data, Within)
        grouped == GroupSum([i \in 1..Len(within) |->
                       [entity |-> EntityOf(within[i], a.type),
                        date_period |-> BqDatePeriod(within[i].date, a.period),
                        metric |-> within[i].clicks]])
        current == CHOOSE p \in {g.date_period : g \in grouped} :
                       \A g \in grouped : g.date_period <= p
        Decay(c, top) == IF c.metric = 0 THEN 100000 ELSE BqDecayOf(c.metric, top.metric)
        final == { [entity |-> j[1].entity, metric_last_period |-> j[1].metric,
                    metric_max |-> j[2].metric, period_max |-> j[2].date_period,
                    decay |-> Decay(j[1], j[2]), decay_abs |-> j[2].metric - j[1].metric] :
                     j \in { k \in grouped \X grouped :
                               /\ k[1].date_period = current
                               /\ k[2].entity = k[1].entity
                               /\ k[2].metric = MetricMax(grouped, k[1].entity) } }
    IN  IF raw_data = <<>> \/ within = <<>> THEN {}
        ELSE { f \in final : /\ f.decay_abs >= a.threshold_metric.val
                             /\ f.decay >= 10 * a.threshold_decay.val }

\* the dates on which the warehouse is queried: CURRENT_DATE()
Todays == {20240410}

\* Report_BQ.find_content_decay; what read_gbq returns is kept when it is called
BqFindContentDecay ==
    /\ rep.exists
    /\ \E a \in DecayArgs, today \in Todays :
          LET out == bq_find_content_decay(bq, rep, a)
          IN  /\ bq' = out.bq
              /\ rep' = out.rep
              /\ bqOp' = [name |-> "find_content_decay", status |-> out.status,
                          calls |-> out.calls, ret |-> out.ret]
              /\ bqArgs' = NoPeriods
              /\ bqRead' = IF out.ret = "DataFrame"
                           THEN [args |-> a,
                                 flagged |-> BqFlagged(warehouse, bq.dates, a, today)]
                           ELSE NoRead
              /\ UNCHANGED warehouse

\* Query_BQ objects on which filter and range have been called: no filter or
\* one accepted filter, then the range of January 2024, a range of None and
\* None, or no range at all
QueryBqConfigs ==
    LET filtered == {InitQueryBq} \cup
                    {bq_filter(InitQueryBq, NoReportBq, a).bq : a \in BqFilterArgs}
        ranges == { <<Jan(1), Jan(31)>>, <<NoneDate, NoneDate>> }
    IN  filtered \cup
        { bq_range(f, NoReportBq, d[1], d[2], 20240101).bq : f \in filtered, d \in ranges }

\* the state from which the operations of a Report_BQ are explored: one of
\* these Query_BQ objects, no Report_BQ created yet
InitReportBq ==
    /\ bq \in QueryBqConfigs
    /\ bqArgs = NoPeriods
    /\ warehouse = <<>>
    /\ bqRead = NoRead
    /\ rep = NoReportBq
    /\ bqOp = [name |-> "__init__", status |-> "ok", calls |-> <<>>, ret |-> "nothing"]

NextReportBQ ==
    \/ (BqGet /\ UNCHANGED <<restVars, reportVars, authVars>>)
    \/ (BqDefineEstimateCost /\ UNCHANGED <<restVars, reportVars, authVars>>)
    \/ (BqPagesNotInSitemap /\ UNCHANGED <<restVars, reportVars, authVars>>)
    \/ (BqCtrYieldCurve /\ UNCHANGED <<restVars, reportVars, authVars>>)
    \/ (BqGroupDataByPeriod /\ UNCHANGED <<restVars, reportVars, authVars>>)
    \/ (BqActivePages /\ UNCHANGED <<restVars, reportVars, authVars>>)
    \/ (BqCannibalization /\ UNCHANGED <<restVars, reportVars, authVars>>)
    \/ (BqForecast /\ UNCHANGED <<restVars, reportVars, authVars>>)
    \/ (BqBrandVsNoBrand /\ UNCHANGED <<restVars, reportVars, authVars>>)
    \/ (BqKeywordGap /\ UNCHANGED <<restVars, reportVars, authVars>>)
    \/ (BqCausalImpact /\ UNCHANGED <<restVars, reportVars, authVars>>)
    \/ (BqFindPotentialContentsToKill /\ UNCHANGED <<restVars, reportVars, authVars>>)
    \/ (BqPositionOverTime /\ UNCHANGED <<restVars, reportVars, authVars>>)
    \/ (BqWinnersLosers /\ UNCHANGED <<restVars, reportVars, authVars>>)
    \/ (BqFindLongTailKeywords /\ UNCHANGED <<restVars, reportVars, authVars>>)
    \/ (BqFindCtrOutliers /\ UNCHANGED <<restVars, reportVars, authVars>>)
    \/ (BqAbcd /\ UNCHANGED <<restVars, reportVars, authVars>>)
    \/ (BqPagesPerDay /\ UNCHANGED <<restVars, reportVars, authVars>>)
    \/ (BqPagesLifespan /\ UNCHANGED <<restVars, reportVars, authVars>>)
    \/ (BqSeasonalityPerDay /\ UNCHANGED <<restVars, reportVars, authVars>>)
    \/ (BqUqc /\ UNCHANGED <<restVars, reportVars, authVars>>)
    \/ (BqFindContentDecay /\ UNCHANGED <<restVars, reportVars, authVars>>)

-----------------------------------------------------------------------------
(* auth.py: generate_auth.  Of an argument the type is kept, of the        *)
(* dataset name the number of its parts between dots (0 for None or '').   *)
(* The calls into the Google libraries end as the environment decides.     *)

AuthArgs ==
    [client_config : {"mapping", "str", "int"},
     credentials : {"None", "mapping", "str"},
     serialize : {"None", "str", "int"},
     flow : {"web", "console", "installed_app"},
     service_account_auth : BOOLEAN,
     bigquery : BOOLEAN,
     bigquery_dataset : {0, 1, 2},
     google_colab : BOOLEAN]

\* how the calls into the libraries end when their arguments have the right
\* types: they return, they raise (no such file, authorization refused), or
\* the URL the user pastes holds no code (google_colab)
LibraryOutcomes == {"returns", "raises", "no_code"}

AuthOut(status, message, ret) == [status |-> status, message |-> message, ret |-> ret]

\* an exception raised inside a library call
LibraryError == AuthOut("LibraryError", "", "nothing")

\* isinstance(client_config, collections.abc.Mapping) or isinstance(client_config, str)
IsMappingOrPath(client_config) == client_config \in {"mapping", "str"}

\* lines 148-170: discovery.build, the serialization, the Account
BuildAndSerialize(a, ext) ==
    IF ext = "raises" THEN LibraryError
    ELSE IF a.serialize = "None" THEN AuthOut("ok", "", "Account")
    ELSE IF a.serialize = "str" THEN AuthOut("ok", "", "Account")
    ELSE AuthOut("TypeError", "serialize must be a path.", "nothing")

\* lines 54-67: the warehouse account; a file name that is no string makes
\* the library raise
AuthBigQuery(a, ext) ==
    IF a.bigquery_dataset = 0
    THEN AuthOut("ValueError", "You must provide a dataset name.", "nothing")
    ELSE IF a.bigquery_dataset # 2
    THEN AuthOut("ValueError",
                 "Dataset name must be in the format project_id.dataset_name", "nothing")
    ELSE IF a.client_config # "str" \/ ext = "raises" THEN LibraryError
    ELSE AuthOut("ok", "", "Account_BQ")

\* lines 69-85: the service account
AuthServiceAccount(a, ext) ==
    IF a.client_config # "str" \/ ext = "raises" THEN LibraryError
    ELSE AuthOut("ok", "", "Account")

\* lines 87-134 and on: no stored credentials
AuthFlow(a, ext) ==
    IF a.google_colab /\ (a.client_config # "str" \/ ext = "raises") THEN LibraryError
    ELSE IF a.google_colab /\ ext = "no_code"
    THEN AuthOut("ValueError", "Invalid URL: No code parameter found.", "nothing")
    ELSE IF ~IsMappingOrPath(a.client_config)
    THEN AuthOut("ValueError", "Client secrets must be a mapping or path to file", "nothing")
    ELSE IF ext = "raises" THEN LibraryError
    ELSE IF a.flow \notin {"web", "console"} /\ ~a.google_colab
    THEN AuthOut("ValueError", "Authentication flow not supported", "nothing")
    ELSE BuildAndSerialize(a, ext)

\* generate_auth
generate_auth(a, ext) ==
    IF a.bigquery THEN AuthBigQuery(a, ext)
    ELSE IF a.service_account_auth THEN AuthServiceAccount(a, ext)
    ELSE IF a.credentials = "None" THEN AuthFlow(a, ext)
    ELSE IF ext = "raises" THEN LibraryError
    ELSE BuildAndSerialize(a, ext)

\* generate_auth has not been called
InitAuth == auth = [called |-> FALSE, args |-> {}, out |-> AuthOut("", "", "nothing")]

\* a caller about to call generate_auth with the arguments a
InitAuthCall ==
    auth \in {[called |-> FALSE, args |-> {a}, out |-> AuthOut("", "", "nothing")] :
                 a \in AuthArgs}

\* the call of generate_auth with the arguments the caller holds
GenerateAuth ==
    /\ ~auth.called
    /\ \E a \in auth.args, ext \in LibraryOutcomes :
           auth' = [called |-> TRUE, args |-> {a}, out |-> generate_auth(a, ext)]


-----------------------------------------------------------------------------
(* The specifications *)

Init == InitRest /\ InitBq /\ InitReportIdle /\ InitAuth

Next ==
    \/ (CallRange /\ UNCHANGED <<bqVars, reportVars, authVars>>)
    \/ (CallDimensions /\ UNCHANGED <<bqVars, reportVars, authVars>>)
    \/ (CallFilter /\ UNCHANGED <<bqVars, reportVars, authVars>>)
    \/ (CallSearchType /\ UNCHANGED <<bqVars, reportVars, authVars>>)
    \/ (CallDataState /\ UNCHANGED <<bqVars, reportVars, authVars>>)
    \/ (CallLimit /\ UNCHANGED <<bqVars, reportVars, authVars>>)
    \/ (GetStart /\ UNCHANGED <<bqVars, reportVars, authVars>>)
    \/ (GetPage /\ UNCHANGED <<bqVars, reportVars, authVars>>)
    \/ (GetPageFails /\ UNCHANGED <<bqVars, reportVars, authVars>>)
    \/ (GetFinish /\ UNCHANGED <<bqVars, reportVars, authVars>>)

Spec == Init /\ [][Next]_vars

SpecBQ == Init /\ [][NextBQ]_vars

InitBqReports == InitRest /\ InitReportBq /\ InitReportIdle /\ InitAuth

SpecReportBQ == InitBqReports /\ [][NextReportBQ]_vars

InitReports == InitRest /\ InitBq /\ InitReport /\ InitAuth

SpecReport == InitReports /\ [][NextReport]_vars

InitClassify == InitRest /\ InitBq /\ InitClassifyReport /\ InitAuth

SpecClassify == InitClassify /\ [][NextClassify]_vars

InitPairReports == InitRest /\ InitBq /\ InitPairReport /\ InitAuth

SpecCannibalization == InitPairReports /\ [][NextCannibalization]_vars

-----------------------------------------------------------------------------
(* Report.ctr_yield_curve.  Of a row the query, the average position, in   *)
(* tenths, the clicks and the impressions are kept.                        *)

\* rows of the tables on which the curve is computed
MaxCurveRows == 3

\* round(df_['position']): pandas rounds a half to the even neighbour
RoundPosition(tenths) ==
    LET q == tenths \div 10
        rest == tenths % 10
    IN  IF rest < 5 THEN q
        ELSE IF rest > 5 THEN q + 1
        ELSE IF q % 2 = 0 THEN q ELSE q + 1

\* .query('position < 10')
KeepPosition_Below(position) == position < 10

\* .query('position <= 10')
KeepPosition(position) == position <= 10

\* the highest rounded position of the tables explored
MaxPosition == 11

RECURSIVE CurveFrom(_, _)
\* groupby('position').agg(sum, sum, count), in ascending order of the
\* rounded position, then the query on the position and the ctr, from
\* position p on
CurveFrom(rows, p) ==
    LET InBucket(row) == RoundPosition(row.position) = p
        bucket == SelectSeq(rows, InBucket)
        clicks == SumOf([i \in 1..Len(bucket) |-> bucket[i].clicks])
        impressions == SumOf([i \in 1..Len(bucket) |-> bucket[i].impressions])
    IN  IF p > MaxPosition THEN <<>>
        ELSE (IF bucket # <<>> /\ KeepPosition(p)
              THEN << [position |-> p, ctr |-> CumulativePercent(clicks, impressions),
                       clicks |-> clicks, impressions |-> impressions,
                       kw_count |-> Len(bucket)] >>
              ELSE <<>>) \o CurveFrom(rows, p + 1)

\* Report.ctr_yield_curve
ctr_yield_curve(r) ==
    IF ~({"query", "date"} \subseteq Elems(r.dimensions)) THEN RRaise(r, "ValueError")
    ELSE IF ~({"clicks", "impressions", "position"} \subseteq Elems(r.metrics))
         THEN RRaise(r, "ValueError")
    ELSE [ROut(r, "ok", "DataFrame", NoReportR) EXCEPT !.table = CurveFrom(r.df.rows, 0)]

QueryNames == <<"shoes", "boots", "acme shoes", "acme boots">>

\* the rows the API returns for the queries: a position of 1.0, 1.5, 2.5,
\* 10.5 or 10.6, and 0 clicks of 1 impression, 1 of 3 or 1 of 32
CurveRowValues(query) ==
    { [date |-> Jan(1).num, page |-> "", query |-> query, position |-> position,
       clicks |-> m[1], impressions |-> m[2]] :
        position \in {10, 15, 25, 105, 106}, m \in { <<0, 1>>, <<1, 3>>, <<1, 32>> } }

CurveTables ==
    { [columns |-> dims \o MetricNames, rows |-> rows] :
        dims \in { <<"query", "date">>, <<"query">> },
        rows \in UNION { { rs \in [1..n -> UNION {CurveRowValues(QueryNames[i]) : i \in 1..n}] :
                             \A i \in 1..n : rs[i].query = QueryNames[i] } :
                         n \in 1..MaxCurveRows } }

RCtrYieldCurve == RCall("ctr_yield_curve", ctr_yield_curve(rpt))

InitCurveReport ==
    /\ rpt \in { Report(df) : df \in CurveTables }
    /\ rptOp = NoCall
    /\ rptOut = NoOut

InitCurveReports == InitRest /\ InitBq /\ InitCurveReport /\ InitAuth

NextCurve == RCtrYieldCurve /\ UNCHANGED <<restVars, bqVars, authVars>>

SpecCurve == InitCurveReports /\ [][NextCurve]_vars

\* the rows of the warehouse that hold what the rows of a Report hold: the
\* page as url, and the one query of every page
WarehouseRows(rows) == [i \in 1..Len(rows) |-> [rows[i] EXCEPT !.query = "shoes"]]

\* Query_BQ(...).range('2024-01-01', '2024-03-31')
DecayQueryBq ==
    bq_range(InitQueryBq, NoReportBq, Jan(1), DateStr(10, 3, 20240331), 20240101).bq

\* a Report of the REST engine just created over a table of daily clicks
InitDecay ==
    /\ InitRest
    /\ InitAuth
    /\ InitBq
    /\ rpt \in { Report(df) : df \in DecayTables(MaxDecayRows, Pages) }
    /\ rptOp = NoCall
    /\ rptOut = NoOut

NextDecay == RFindContentDecay /\ UNCHANGED <<restVars, bqVars, authVars>>

SpecDecay == InitDecay /\ [][NextDecay]_vars

\* a Report of the REST engine and a Report_BQ over the same rows of one
\* page in the first quarter of 2024, the Report_BQ after
\* define_estimate_cost(False)
InitEngines ==
    /\ InitRest
    /\ InitAuth
    /\ rpt \in { Report(df) : df \in DecayTables(MaxEngineRows, {"https://a.com/x"}) }
    /\ rptOp = NoCall
    /\ rptOut = NoOut
    /\ warehouse = WarehouseRows(rpt.df.rows)
    /\ bq = DecayQueryBq
    /\ rep = define_estimate_cost(bq, bq_get(bq, NoReportBq).rep, FALSE).rep
    /\ bqOp = [name |-> "define_estimate_cost", status |-> "ok", calls |-> <<>>,
               ret |-> "self"]
    /\ bqArgs = <<[value |-> FALSE]>>
    /\ bqRead = NoRead

NextEngines ==
    \/ (RFindContentDecay /\ UNCHANGED <<restVars, bqVars, authVars>>)
    \/ (BqFindContentDecay /\ UNCHANGED <<restVars, reportVars, authVars>>)

SpecEngines == InitEngines /\ [][NextEngines]_vars


NextAuth == GenerateAuth /\ UNCHANGED <<restVars, bqVars, reportVars>>

InitOfAuth == InitRest /\ InitBq /\ InitReportIdle /\ InitAuthCall

SpecAuth == InitOfAuth /\ [][NextAuth]_vars

-----------------------------------------------------------------------------
(* Properties of the REST engine *)

RECURSIVE SumSeq(_)
SumSeq(ns) == IF ns = <<>> THEN 0 ELSE ns[1] + SumSeq(Tail(ns))

\* a page of fewer than 25,000 rows has been received by the running get()
ShortPageSeen == \E i \in 1..Len(pages) : pages[i] < PageSize

\* the rows received by the running get() have reached the caller's limit
CallerLimitReached == "limit" \in DOMAIN meta /\ SumSeq(pages) >= meta["limit"]

\* a step of get() that issues a page request
IssuesRequest == Len(reqs') = Len(reqs) + 1

\* the step in which get() leaves its loop by itself (no exception of the backend)
LeavesLoop == pc = "loop" /\ pc' = "idle" /\ reqs' = reqs

\* every request of the log follows a delay
DelayBeforeEachRequest(ev) ==
    \A i \in 1..Len(ev) : ev[i] = "request" => (i > 1 /\ ev[i - 1] = "sleep")

(* C1: get()'s pagination loop issues no page request once a page of fewer *)
(* than 25,000 rows has been received or the received rows have reached    *)
(* the caller's limit, and it does not leave the loop before one of the    *)
(* two holds; with no limit recorded only the short page ends it.          *)
C1_PaginationStops ==
    [][ /\ (IssuesRequest => ~(ShortPageSeen \/ CallerLimitReached))
        /\ (LeavesLoop => (ShortPageSeen \/ CallerLimitReached))
        /\ (LeavesLoop /\ "limit" \notin DOMAIN meta => ShortPageSeen) ]_vars

\* get() stopped by the caller's limit alone, after two full pages
C1_Witness ==
    /\ pc = "loop"
    /\ Len(reqs) = 2
    /\ CallerLimitReached
    /\ ~ShortPageSeen
    /\ ~LoopContinues(loc.is_complete, loc.limit_achieved)

\* the scenario of C2: dimensions ['date'], 2024-01-01..2024-01-03, limit 10,
\* a backend whose pages have 2, 2 and 1 rows
C2_Scenario ==
    /\ backend = <<2, 2, 1>>
    /\ "dimensions" \in DOMAIN raw /\ raw["dimensions"] = <<"date">>
    /\ "startDate" \in DOMAIN raw /\ raw["startDate"] = "2024-01-01"
    /\ "endDate" \in DOMAIN raw /\ raw["endDate"] = "2024-01-03"
    /\ "limit" \in DOMAIN meta /\ meta["limit"] = 10

(* C2, as claimed: in the scenario get() issues exactly 3 page requests,   *)
(* each after the delay, and returns a Report of 5 rows.                   *)
C2_ThreeRequestsFiveRows ==
    [][ (LeavesLoop /\ C2_Scenario) =>
            /\ lastOp'.status = "ok"
            /\ Len(reqs') = 3
            /\ DelayBeforeEachRequest(events')
            /\ returned'.nrows = 5 ]_vars

(* C2, amended: in the scenario get() issues exactly 1 page request, after *)
(* the delay, and returns a Report of the 2 rows of the first page: that   *)
(* page is shorter than 25,000 rows and ends the loop.                     *)
C2_OneRequestTwoRows ==
    [][ (LeavesLoop /\ C2_Scenario) =>
            /\ lastOp'.status = "ok"
            /\ Len(reqs') = 1
            /\ events' = <<"sleep", "request">>
            /\ returned'.nrows = 2 ]_vars

\* the scenario's get() has returned
C2_Witness ==
    /\ pc = "idle"
    /\ lastOp = [name |-> "get", status |-> "ok", ret |-> "Report"]
    /\ pages = <<2>>
    /\ "dimensions" \in DOMAIN reqs[1] /\ reqs[1]["dimensions"] = <<"date">>
    /\ "startDate" \in DOMAIN reqs[1] /\ reqs[1]["startDate"] = "2024-01-01"
    /\ reqs[1].rowLimit = 10
    /\ returned.nrows = 2

\* the last operation was a get() and it is over
GetOver == pc = "idle" /\ lastOp.name = "get"

(* C3: get() never returns a Report of zero rows: when no page request     *)
(* returned a row it raises the 'no data' ValueError, and a Report it      *)
(* returns has at least one row.                                           *)
C3_NeverEmptyReport ==
    GetOver =>
        /\ (lastOp.status = "ok" => lastOp.ret = "Report" /\ returned.nrows >= 1)
        /\ (SumSeq(pages) = 0 /\ lastOp.status # "HttpError" =>
                lastOp.status = "ValueError" /\ lastOp.ret = "nothing")

\* get() ended in the 'no data' error: every page it received was empty
C3_Witness ==
    /\ GetOver
    /\ lastOp.status = "ValueError"
    /\ Len(pages) >= 1
    /\ SumSeq(pages) = 0

RECURSIVE BackendOffset(_, _, _)
\* the backend offset of the i-th row received, from the log of requests and pages
BackendOffset(rs, ps, i) ==
    IF i <= ps[1] THEN rs[1].startRow + i
    ELSE BackendOffset(Tail(rs), Tail(ps), i - ps[1])

(* C4: with N declared dimensions, every row of the Report get() returns   *)
(* has exactly N dimension columns, the k-th named by the k-th declared    *)
(* dimension and holding the k-th key of the backend's row, and the        *)
(* metrics of that same backend row.                                       *)
C4_KeysToColumns ==
    (GetOver /\ lastOp.status = "ok") =>
        LET dims == reqs[1]["dimensions"]
            N == Len(dims)
        IN  /\ Len(returned.columns) = N + Len(MetricNames)
            /\ \A k \in 1..N : returned.columns[k] = dims[k]
            /\ \A i \in DOMAIN returned.rows :
                 LET row == returned.rows[i]
                     api == ApiRow(dims, BackendOffset(reqs, pages, i))
                 IN  /\ Cardinality(DOMAIN row \cap DIMENSIONS) = N
                     /\ \A k \in 1..N : row[dims[k]] = api.keys[k]
                     /\ \A k \in 1..Len(MetricNames) :
                            row[MetricNames[k]] = api[MetricNames[k]]

\* a Report of two dimensions that spans more than one page
C4_Witness ==
    /\ GetOver
    /\ lastOp.status = "ok"
    /\ Len(reqs[1]["dimensions"]) = 2
    /\ returned.nrows > PageSize

(* C5, as claimed: after every get(), returned or raised, startRow is 0,   *)
(* rowLimit is 25,000 and no caller limit is recorded.                     *)
C5_ResetAfterEveryGet ==
    GetOver =>
        /\ raw.startRow = 0
        /\ raw.rowLimit = PageSize
        /\ "limit" \notin DOMAIN meta

BuilderOps == {"dimensions", "filter", "search_type", "data_state", "limit"}

\* a step that is a whole call of a builder method
BuilderCall == pc = "idle" /\ nops' = nops + 1 /\ lastOp'.name \in BuilderOps

C8_OnlyAndGroups ==
    "dimensionFilterGroups" \in DOMAIN raw =>
        \A g \in 1..Len(raw["dimensionFilterGroups"]) :
            raw["dimensionFilterGroups"][g].groupType = "and"

(* C9: after k >= 1 successful filter calls since the Query was created or *)
(* last reset, the request body holds exactly one filter group, whose      *)
(* filters are the k accepted filters in call order.                       *)
C9_OneGroupInCallOrder ==
    Len(filterLog) >= 1 =>
        /\ "dimensionFilterGroups" \in DOMAIN raw
        /\ Len(raw["dimensionFilterGroups"]) = 1
        /\ raw["dimensionFilterGroups"][1].filters = filterLog

\* two different filters were accepted, one after the other
C9_Witness ==
    /\ Len(filterLog) = 2
    /\ filterLog[1] # filterLog[2]
    /\ Len(raw["dimensionFilterGroups"][1].filters) = 2

(* C10, as claimed: every page request carries rowLimit = 25,000.          *)
C10_PageSizeFixed ==
    \A i \in 1..Len(reqs) : reqs[i].rowLimit = PageSize

(* C10, amended: every page request carries rowLimit = min(n, 25,000) for  *)
(* the recorded caller limit n, and 25,000 when no limit is recorded; the  *)
(* recorded limit is always a positive integer, and limit(n) sets the      *)
(* page size of the request body to min(n, 25,000).                        *)
C10_PageSizeIsMinOfLimit ==
    [][ /\ (IssuesRequest =>
                reqs'[Len(reqs')].rowLimit =
                    IF "limit" \in DOMAIN meta THEN Min(meta["limit"], PageSize) ELSE PageSize)
        /\ ("limit" \in DOMAIN meta' =>
                /\ meta'["limit"] \in Nat \ {0}
                /\ raw'.rowLimit = Min(meta'["limit"], PageSize))
        /\ ("limit" \notin DOMAIN meta' => raw'.rowLimit = PageSize) ]_vars

\* a page request went out with the caller's limit of 10 as its page size
C10_Witness ==
    /\ Len(reqs) >= 1
    /\ reqs[1].rowLimit = 10
    /\ pages # <<>>

-----------------------------------------------------------------------------
(* Properties of both engines *)

(* C7, as claimed: an operation that raises a validation error about its   *)
(* arguments has issued no network or warehouse call before raising.       *)
C7_ValidationBeforeBackendCall ==
    bqOp.status = "ValueError" => bqOp.calls = <<>>

-----------------------------------------------------------------------------
(* Properties of the warehouse engine *)

\* the dimensions only the URL-level table has
UrlOnlyDimensions == DIMENSIONS_URL \ DIMENSIONS_SITE

\* the last operation created a Report_BQ
ReportBqCreated == bqOp.name = "get" /\ bqOp.status = "ok"

\* the number of recorded filters on a dimension only the URL-level table has
UrlOnlyFilters(fd) == Cardinality({i \in 1..Len(fd) : fd[i] \in UrlOnlyDimensions})

(* C11: the table chosen for a new Report_BQ is the site-level one exactly *)
(* when every dimension recorded by the accumulated filters belongs to the *)
(* site-level vocabulary (so also with no filter at all); one filter on a  *)
(* URL-only dimension makes it the URL-level table.                        *)
C11_SiteTableIffAllSiteDimensions ==
    ReportBqCreated =>
        /\ rep.table_to_use \in {"searchdata_site_impression", "searchdata_url_impression"}
        /\ (rep.table_to_use = "searchdata_site_impression"
                <=> UrlOnlyFilters(bq.filters_dimensions) = 0)
        /\ (bq.filters_dimensions = <<>> => rep.table_to_use = "searchdata_site_impression")

\* a Report_BQ created after a site-level filter and one URL-only filter
C11_Witness ==
    /\ ReportBqCreated
    /\ Len(bq.filters_dimensions) = 2
    /\ UrlOnlyFilters(bq.filters_dimensions) = 1
    /\ rep.table_to_use = "searchdata_url_impression"

\* the analytic operations of a Report_BQ
AnalyticOps ==
    {"ctr_yield_curve", "group_data_by_period", "active_pages", "cannibalization",
     "forecast", "brand_vs_no_brand", "keyword_gap", "causal_impact",
     "find_potential_contents_to_kill", "position_over_time", "pages_not_in_sitemap",
     "winners_losers", "find_long_tail_keywords", "find_ctr_outliers", "abcd",
     "pages_per_day", "pages_lifespan", "seasonality_per_day", "uqc", "find_content_decay"}

\* the operation made a warehouse call of the given kind
Made(op, call) == \E i \in 1..Len(op.calls) : op.calls[i] = call

\* the Report_BQ was created over a date range with both ends given
ReportDatesSet ==
    /\ rep.exists
    /\ ~bq.dates["startDate"].none
    /\ ~bq.dates["endDate"].none

(* C12, as claimed: on a Report_BQ whose estimation flag is still set,     *)
(* every analytic operation whose arguments pass its validation returns a  *)
(* cost estimate obtained by a dry run: it returns no data and does not    *)
(* end in an error.                                                        *)
C12_EstimateReturnsCost ==
    (bqOp.name \in AnalyticOps /\ ReportDatesSet /\ rep.estimate_cost
        /\ bqOp.status # "ValueError") =>
            /\ bqOp.status = "ok"
            /\ bqOp.ret = "cost"
            /\ Made(bqOp, "dry_run")
            /\ ~Made(bqOp, "read_gbq")

\* an analytic operation that ran a data-returning query
AnalyticRead(op) == op.name \in AnalyticOps /\ Made(op, "read_gbq")

(* C13: a new Report_BQ has estimate_cost set; no analytic operation of a  *)
(* Report_BQ runs a data-returning query while estimate_cost is set; and   *)
(* only define_estimate_cost clears the flag, so that every such query     *)
(* comes after a define_estimate_cost(False) on that report.               *)
C13_SpendingIsOptIn ==
    [][ /\ (bqOp'.name = "get" /\ bqOp'.status = "ok" => rep'.estimate_cost)
        /\ (AnalyticRead(bqOp') => rep.exists /\ ~rep.estimate_cost)
        /\ (rep.exists /\ rep.estimate_cost /\ ~rep'.estimate_cost =>
                bqOp'.name = "define_estimate_cost") ]_vars

\* winners_losers ran its two data-returning queries on a report whose flag
\* had been cleared
C13_Witness ==
    /\ bqOp.name = "winners_losers"
    /\ bqOp.status = "ok"
    /\ bqOp.calls = <<"read_gbq", "read_gbq">>
    /\ rep.exists
    /\ ~rep.estimate_cost

\* the last operation was a winners_losers given two lists of two dates in
\* the YYYY-MM-DD format, on a report whose date range has both ends
WinnersLosersOnDates ==
    /\ bqOp.name = "winners_losers"
    /\ ReportDatesSet
    /\ \A k \in 1..2 :
          /\ bqArgs[k].is_list
          /\ Len(bqArgs[k].dates) = 2
          /\ \A i \in 1..2 : Parses(bqArgs[k].dates[i])

\* the days of a range read as inclusive of both ends lie between lo and hi;
\* two such ranges share a day
RangesShareADay(a, b) ==
    /\ a[1].num <= a[2].num
    /\ b[1].num <= b[2].num
    /\ a[1].num <= b[2].num
    /\ b[1].num <= a[2].num

(* C17, as claimed: winners_losers raises a validation error and produces  *)
(* no result whenever its two date ranges, read as inclusive of their end  *)
(* dates, share at least one date.                                         *)
C17_OverlapRejected ==
    (WinnersLosersOnDates /\ RangesShareADay(bqArgs[1].dates, bqArgs[2].dates)) =>
        bqOp.status = "ValueError" /\ bqOp.ret = "nothing"

(* C18, as claimed: winners_losers raises a validation error when the      *)
(* first date of period_from or of period_to is later than its second.     *)
C18_OutOfOrderRejected ==
    (WinnersLosersOnDates /\ \E k \in 1..2 : bqArgs[k].dates[1].num > bqArgs[k].dates[2].num) =>
        bqOp.status = "ValueError" /\ bqOp.ret = "nothing"

-----------------------------------------------------------------------------
(* Properties of the Report of the REST engine *)

\* the operations of a Report that return a Report
Transforms ==
    {"filter", "url_to_df", "update_urls", "classify_pages", "add_first_found",
     "get_response_codes"}

\* the last operation returned a Report
ReturnedReport == rptOp.status = "ok" /\ rptOp.ret \in {"Report", "self"}

(* C14, as claimed: no operation changes the Report it is called on: its   *)
(* table, dimensions, metrics and date span stay what they were; and an    *)
(* operation that updates a Report returns a new Report.                   *)
C14_ReceiverUnchanged ==
    [][ /\ rpt'.df = rpt.df
        /\ rpt'.dimensions = rpt.dimensions
        /\ rpt'.metrics = rpt.metrics
        /\ rpt'.from_date = rpt.from_date
        /\ rpt'.to_date = rpt.to_date
        /\ (rptOp'.name \in Transforms /\ rptOp'.status = "ok" => rptOp'.ret = "Report") ]_vars

\* every column of the Report's table is in exactly one of its two lists:
\* dimensions holds the columns of the dimension vocabulary, metrics the others
ColumnsPartitioned(r) ==
    /\ Elems(r.dimensions) = Elems(r.df.columns) \cap DIMENSIONS
    /\ Elems(r.metrics) = Elems(r.df.columns) \ DIMENSIONS
    /\ Elems(r.dimensions) \cap Elems(r.metrics) = {}

(* C15, as claimed: for every Report, created by an engine or returned by  *)
(* a transform, dimensions are exactly the columns of its table that are   *)
(* in the dimension vocabulary, metrics exactly the other columns, and the *)
(* two lists are disjoint.                                                 *)
C15_ColumnsPartitioned ==
    /\ ColumnsPartitioned(rpt)
    /\ (ReturnedReport => ColumnsPartitioned(rptOut.result))

\* from_date and to_date are the least and the greatest date of the table's
\* date column, and undefined when the table has no date column
DateSpanInferred(r) ==
    IF "date" \in Elems(r.df.columns)
    THEN r.df.rows # <<>> => r.from_date = DateMin(r.df) /\ r.to_date = DateMax(r.df)
    ELSE r.from_date = NoDate /\ r.to_date = NoDate

(* C16, as claimed: for every Report, the ones Report.filter returns       *)
(* included, from_date and to_date are the minimum and the maximum of the  *)
(* date column of its table, and undefined when it has no date column.     *)
C16_DateSpanInferred ==
    /\ DateSpanInferred(rpt)
    /\ (ReturnedReport => DateSpanInferred(rptOut.result))

\* the position of a label in the order of the bands
BandOrder(label) ==
    IF label = "A" THEN 1 ELSE IF label = "B" THEN 2 ELSE IF label = "C" THEN 3 ELSE 4

(* C19, as claimed: abcd gives every row exactly one of the labels A, B,   *)
(* C, D, and along the descending order of the metric the labels never go  *)
(* back to an earlier band.                                                *)
C19_EveryRowLabelled ==
    (rptOp.name = "abcd" /\ rptOp.status = "ok") =>
        /\ Len(rptOut.labels) = Len(rpt.df.rows)
        /\ \A i \in 1..Len(rptOut.labels) : rptOut.labels[i].abcd \in {"A", "B", "C", "D"}
        /\ \A i \in 1..Len(rptOut.labels), j \in 1..Len(rptOut.labels) :
              i < j => BandOrder(rptOut.labels[i].abcd) <= BandOrder(rptOut.labels[j].abcd)

\* the brand terms the last cannibalization was given
BrandTerms == rptOp.args.brand_variants

\* the (query, page) pairs of the table whose query matches no brand term
NonBrandedPairs(rows) ==
    { <<rows[i].query, rows[i].page>> :
        i \in { k \in 1..Len(rows) : ~Branded(rows[k].query, BrandTerms) } }

\* the clicks of the rows of a set of pairs
ClicksOfPairs(rows, prs) ==
    SumOf([i \in 1..Len(rows) |->
              IF <<rows[i].query, rows[i].page>> \in prs THEN rows[i].clicks ELSE 0])

\* a pair of a non-branded query that has at least two pages and one click,
\* where the page holds a tenth of the query's clicks and the query gives a
\* tenth of the page's clicks (clicks counted over the non-branded pairs)
Qualifies(rows, pr) ==
    LET nb == NonBrandedPairs(rows)
        ofQuery == { o \in nb : o[1] = pr[1] }
        ofPage == { o \in nb : o[2] = pr[2] }
    IN  /\ pr \in nb
        /\ Cardinality(ofQuery) >= 2
        /\ ClicksOfPairs(rows, ofQuery) >= 1
        /\ 10 * ClicksOfPairs(rows, {pr}) >= ClicksOfPairs(rows, ofQuery)
        /\ ClicksOfPairs(rows, ofPage) > 0
        /\ 10 * ClicksOfPairs(rows, {pr}) >= ClicksOfPairs(rows, ofPage)

AllPairs(rows) == { <<rows[i].query, rows[i].page>> : i \in 1..Len(rows) }

-----------------------------------------------------------------------------
(* Properties of the analytics of the REST Report *)

\* a position in tenths rounds to the whole position p: p is the nearest
\* whole number, and the even one of the two when both are as near
RoundsTo(tenths, p) ==
    LET diff == IF tenths >= 10 * p THEN tenths - 10 * p ELSE 10 * p - tenths
    IN  diff < 5 \/ (diff = 5 /\ p % 2 = 0)

\* the rows of the Report whose position rounds to p
RowsAt(p) == { i \in 1..Len(rpt.df.rows) : RoundsTo(rpt.df.rows[i].position, p) }

RECURSIVE ClicksOfRows(_)
ClicksOfRows(S) ==
    IF S = {} THEN 0
    ELSE LET i == CHOOSE j \in S : TRUE
         IN  rpt.df.rows[i].clicks + ClicksOfRows(S \ {i})

RECURSIVE ImpressionsOfRows(_)
ImpressionsOfRows(S) ==
    IF S = {} THEN 0
    ELSE LET i == CHOOSE j \in S : TRUE
         IN  rpt.df.rows[i].impressions + ImpressionsOfRows(S \ {i})

CurveReturned == rptOp.name = "ctr_yield_curve" /\ rptOp.status = "ok"

\* C21: the table ctr_yield_curve returns has exactly one row for every
\* position from 1 to 10 to which the position of some row of the Report
\* rounds, and no other row; the row's clicks and impressions are the sums
\* over those rows, its kw_count is their number, and its ctr is
\* 100 * clicks / impressions to the nearest hundredth
C21_CurveOfPositionBuckets ==
    CurveReturned =>
        LET curve == rptOut.table
        IN  /\ \A k \in 1..Len(curve) :
                 LET S == RowsAt(curve[k].position)
                     distance == 10000 * curve[k].clicks
                                 - curve[k].ctr * curve[k].impressions
                 IN  /\ curve[k].position \in 1..10
                     /\ S # {}
                     /\ curve[k].clicks = ClicksOfRows(S)
                     /\ curve[k].impressions = ImpressionsOfRows(S)
                     /\ curve[k].kw_count = Cardinality(S)
                     /\ 2 * distance <= curve[k].impressions
                     /\ 0 - 2 * distance <= curve[k].impressions
            /\ \A p \in 1..10 :
                 RowsAt(p) # {} =>
                     Cardinality({k \in 1..Len(curve) : curve[k].position = p}) = 1

\* two rows of different positions fall in the bucket of position 2, one in
\* the bucket of position 10, and a row of position 10.6 is left out
C21_Witness ==
    /\ CurveReturned
    /\ \E k \in 1..Len(rptOut.table) :
         rptOut.table[k].position = 2 /\ rptOut.table[k].kw_count = 2
    /\ \E i, j \in 1..Len(rpt.df.rows) :
         /\ rpt.df.rows[i].position = 15
         /\ rpt.df.rows[j].position = 25
    /\ \E i \in 1..Len(rpt.df.rows) : rpt.df.rows[i].position = 106

\* find_content_decay of the Report returned a table
DecayReturned == rptOp.name = "find_content_decay" /\ rptOp.status = "ok"

\* the date lies in the complete calendar periods of the dates of the
\* Report: from the first Monday to the last Sunday for weeks, from the
\* first day of the first whole month to the last day of the last one
InCompletePeriods(date, period) ==
    LET first == DateMin(rpt.df)
        last == DateMax(rpt.df)
    IN  IF period = "month"
        THEN /\ (IF DayOf(first) = 1 THEN first ELSE NextMonthBegin(first)) <= date
             /\ date <= (IF IsMonthEnd(last) THEN last ELSE PreviousMonthEnd(last))
        ELSE /\ DayOfYear(first) + ((7 - DayOfWeek(first)) % 7) <= DayOfYear(date)
             /\ DayOfYear(date) <= DayOfYear(last) - ((DayOfWeek(last) + 1) % 7)

\* the calendar period of a date: its month, or its week starting on Monday
CalendarPeriod(date, period) ==
    IF period = "month" THEN date \div 100 ELSE (date \div 10000) * 100 + IsoWeek(date)

\* the rows of the page in the complete periods, and those of them in period p
RowsOfPage(page, period) ==
    { i \in 1..Len(rpt.df.rows) :
        rpt.df.rows[i].page = page /\ InCompletePeriods(rpt.df.rows[i].date, period) }

RowsOfPageIn(page, period, p) ==
    { i \in RowsOfPage(page, period) : CalendarPeriod(rpt.df.rows[i].date, period) = p }

PeriodsOfPage(page, period) ==
    { CalendarPeriod(rpt.df.rows[i].date, period) : i \in RowsOfPage(page, period) }

\* the most recent of the complete periods that hold rows
LastCompletePeriod(period) ==
    LET all == UNION { PeriodsOfPage(rpt.df.rows[i].page, period) : i \in 1..Len(rpt.df.rows) }
    IN  CHOOSE p \in all : \A o \in all : o <= p

\* the largest value of the page over its periods
PeakOfPage(page, period) ==
    LET values == { ClicksOfRows(RowsOfPageIn(page, period, p)) :
                      p \in PeriodsOfPage(page, period) }
    IN  CHOOSE v \in values : \A o \in values : o <= v

LastOfPage(page, period) ==
    ClicksOfRows(RowsOfPageIn(page, period, LastCompletePeriod(period)))

\* the page has a value in the most recent period that has dropped from its
\* peak by at least threshold_decay, and its peak exceeds threshold_metric
Decayed(page, a) ==
    /\ PeriodsOfPage(page, a.period) # {}
    /\ LastCompletePeriod(a.period) \in PeriodsOfPage(page, a.period)
    /\ 100 * (PeakOfPage(page, a.period) - LastOfPage(page, a.period))
           >= a.threshold_decay.val * PeakOfPage(page, a.period)
    /\ PeakOfPage(page, a.period) > a.threshold_metric.val

\* C22: the pages find_content_decay of the Report flags are exactly those
\* whose value in the most recent complete calendar period has dropped from
\* their own largest period value by at least threshold_decay and whose
\* largest value exceeds threshold_metric; of a flagged page, decay is
\* 1 - last / max to the thousandth and decay_abs is max - last
C22_DecayOverCompletePeriods ==
    DecayReturned =>
        LET a == rptOp.args
        IN  /\ { f.entity : f \in rptOut.flagged } =
                   { rpt.df.rows[i].page : i \in { j \in 1..Len(rpt.df.rows) :
                                                     Decayed(rpt.df.rows[j].page, a) } }
            /\ \A f \in rptOut.flagged :
                 Decayed(f.entity, a) =>
                     LET peak == PeakOfPage(f.entity, a.period)
                         last == LastOfPage(f.entity, a.period)
                         distance == 1000 * (peak - last) - f.decay * peak
                     IN  /\ 2 * distance <= peak
                         /\ 0 - 2 * distance <= peak
                         /\ f.decay_abs = peak - last

-----------------------------------------------------------------------------
(* Properties of the two engines together *)

\* find_content_decay of the warehouse read a table
BqDecayRead ==
    bqOp.name = "find_content_decay" /\ bqOp.status = "ok" /\ bqOp.ret = "DataFrame"

\* both engines were given the same thresholds, period and type, the page
\* being the url of the warehouse
SameDecayRequest ==
    /\ rptOp.args.threshold_decay = bqRead.args.threshold_decay
    /\ rptOp.args.threshold_metric = bqRead.args.threshold_metric
    /\ rptOp.args.period = bqRead.args.period
    /\ \/ rptOp.args.type = "page" /\ bqRead.args.type = "url"
       \/ rptOp.args.type = "query" /\ bqRead.args.type = "query"

\* the columns of the flagged entities that both engines compute
DecayColumns(flagged) ==
    { [entity |-> f.entity, metric_last_period |-> f.metric_last_period,
       metric_max |-> f.metric_max, decay |-> f.decay, decay_abs |-> f.decay_abs] :
        f \in flagged }

\* C23: over the same rows and date range and with the same thresholds,
\* period and type, find_content_decay of the Report and find_content_decay
\* of the Report_BQ flag the same entities, with the same
\* metric_last_period, metric_max, decay and decay_abs
C23_EnginesFlagTheSame ==
    (DecayReturned /\ BqDecayRead /\ SameDecayRequest) =>
        DecayColumns(rptOut.flagged) = DecayColumns(bqRead.flagged)

(***************************************************************************)
(* Properties of generate_auth                                             *)
(***************************************************************************)

\* a finished call of generate_auth on the OAuth path (no warehouse account,
\* no service account) without stored credentials
OAuthCallWithoutCredentials(a) ==
    /\ auth.called
    /\ a \in auth.args
    /\ ~a.bigquery
    /\ ~a.service_account_auth
    /\ a.credentials = "None"

\* C24: generate_auth called without stored credentials and with a
\* client_config that is neither a mapping nor a path string raises
\* ValueError('Client secrets must be a mapping or path to file') and returns
\* no Account.
C24_InvalidClientConfigRejected ==
    \A a \in AuthArgs :
        (OAuthCallWithoutCredentials(a) /\ a.client_config = "int")
            => /\ auth.out.status = "ValueError"
               /\ auth.out.message = "Client secrets must be a mapping or path to file"
               /\ auth.out.ret = "nothing"

\* a call of classify_pages has returned a Report
ClassifyReturned ==
    /\ rptOp.name = "classify_pages"
    /\ rptOp.status = "ok"

\* the rules, by their place in the rules of the call, that the page matches
MatchingRules(page) ==
    { k \in 1..Len(rptOp.args.rows) : RuleMatches(page, rptOp.args.rows[k]) }

CannibalizationReturned ==
    /\ rptOp.name = "cannibalization"
    /\ rptOp.status = "ok"

\* the query contains at least one of the brand terms of the call
HasBrandTerm(query) ==
    \E i \in 1..Len(rptOp.args.brand_variants) :
        Contains(query, rptOp.args.brand_variants[i])

\* C26: for every list of brand terms, the empty list included,
\* cannibalization drops a query as branded exactly when the query contains at
\* least one of the terms; a query that contains none of them is never
\* dropped for being branded.
C26_BrandedExactlyWhenTermContained ==
    CannibalizationReturned =>
        \A i \in 1..Len(rpt.df.rows) :
            (<<rpt.df.rows[i].query, rpt.df.rows[i].page>> \notin rptOut.kept)
                <=> HasBrandTerm(rpt.df.rows[i].query)

\* C27: in the result of find_content_decay of the Report, period_max of
\* each entity is the period in which that entity's own metric reached its
\* maximum: the period whose value is the entity's metric_max.
C27_PeriodMaxIsOwnPeak ==
    DecayReturned =>
        \A f \in rptOut.flagged :
            \E g \in RestGrouped(rpt, rptOp.args) :
                /\ g.entity = f.entity
                /\ g.date_period = f.period_max
                /\ g.metric = f.metric_max

(***************************************************************************)
(* Properties of the rows get() returns                                    *)
(***************************************************************************)

\* get() returns a Report in this step
GetReturns ==
    /\ pc = "loop"
    /\ pc' = "idle"
    /\ lastOp'.name = "get"
    /\ lastOp'.status = "ok"

\* the page a backend that holds N rows serves, by row offset, to a request
ServedPage(N, body) ==
    IF N <= body.startRow THEN 0 ELSE Min(body.rowLimit, N - body.startRow)

\* every page of this get() is the one a backend holding N rows serves
ServedByOffset(N) ==
    /\ N >= 1
    /\ \A i \in 1..Len(pages) : pages[i] = ServedPage(N, reqs[i])

\* the row counts the pages of this get() are consistent with: what the
\* short pages show the backend to hold, or as many rows as were asked for
RowCounts ==
    { reqs[i].startRow + pages[i] : i \in 1..Len(pages) }
        \cup { reqs[i].startRow + reqs[i].rowLimit : i \in 1..Len(pages) }

\* C28: when the backend holds N >= 1 rows and serves them by row offset,
\* get() with the caller's limit L returns exactly the first min(L, N) rows
\* in the order of the backend, none duplicated and none skipped across
\* pages; without a limit it returns all N rows.
C28_FirstRowsInBackendOrder ==
    [][ GetReturns =>
          \A N \in RowCounts :
              ServedByOffset(N) =>
                  /\ returned'.nrows = (IF loc.limit.inf THEN N ELSE Min(loc.limit.val, N))
                  /\ \A i \in DOMAIN returned'.rows : returned'.rows[i].clicks = i ]_vars

\* C29: a successful get() clears the whole query configuration, not only
\* the paging state: when it returns, the request body is exactly
\* {startRow: 0, rowLimit: 25000}, with no date range, dimensions, filters,
\* search type or data state left in it, and the limit metadata is empty.
C29_GetClearsConfiguration ==
    [][ GetReturns =>
          /\ raw' = [startRow |-> 0, rowLimit |-> PageSize]
          /\ DOMAIN raw' = {"startRow", "rowLimit"}
          /\ meta' = EmptyDict
          /\ DOMAIN meta' = {} ]_vars

\* get() has returned a Report for a Query that had a date range, dimensions
\* and a limit, sent in its request, and the Query now holds none of them
C29_Witness ==
    /\ GetOver
    /\ lastOp.status = "ok"
    /\ Len(reqs) >= 1
    /\ {"startDate", "endDate", "dimensions"} \subseteq DOMAIN reqs[1]
    /\ reqs[1].rowLimit # PageSize
    /\ DOMAIN raw = {"startRow", "rowLimit"}
    /\ DOMAIN meta = {}

(***************************************************************************)
(* Properties of the cost estimation of the Report_BQ                      *)
(***************************************************************************)

\* this step is a call of define_estimate_cost on the Report_BQ
DefinesEstimateCost == bqOp'.name = "define_estimate_cost"

\* C30: the cost estimation of a Report_BQ can only be switched off, never
\* back on: a define_estimate_cost call with a false value leaves
\* estimate_cost false, no define_estimate_cost call makes a false
\* estimate_cost true, and a call with a true value (the default of the
\* argument) leaves the flag as it was.
C30_EstimateCostOnlyOff ==
    [][ DefinesEstimateCost =>
          /\ (~bqArgs'[1].value => ~rep'.estimate_cost)
          /\ (~rep.estimate_cost => ~rep'.estimate_cost)
          /\ (bqArgs'[1].value => rep'.estimate_cost = rep.estimate_cost) ]_vars

\* define_estimate_cost was called with a true value on a Report_BQ whose
\* cost estimation had been switched off, and it is still off
C30_Witness ==
    /\ bqOp.name = "define_estimate_cost"
    /\ bqArgs[1].value
    /\ rep.exists
    /\ ~rep.estimate_cost

=============================================================================
